---- MODULE Spec2Model ----
(***************************************************************************)
(* A model of salt/fileserver/gitfs.py: the git fileserver backend.        *)
(*                                                                         *)
(* Strings the code takes apart (ref names, environment names, paths) are  *)
(* sequences of tokens; "/" is a token of its own, so split, partition and *)
(* replace are computed on the sequence as the code computes them on the   *)
(* string.                                                                 *)
(***************************************************************************)
EXTENDS Integers, Sequences, FiniteSets, TLC

VARIABLES
    provider,    \* __opts__['verified_gitfs_provider']
    enum,        \* the order the git library enumerates refs in
    opts,        \* __opts__: gitfs_remotes, gitfs_base, white/blacklist
    upstream,    \* the remote repositories: uri -> (ref -> commit id)
    repo,        \* <cachedir>/gitfs/<hash>: the per-remote working dirs
    remoteMap,   \* <cachedir>/gitfs/remote_map.txt
    envCache,    \* <cachedir>/gitfs/envs.p
    cache,       \* refs/<env>/<path> and hash/<env>/<path>.*, per env
    pc,          \* position of each worker inside find_file
    call,        \* the arguments and resolved blob of each worker's call
    upd,         \* the updater: position in update() and its locals
    event,       \* the event the running (or last) update() fired
    hist,        \* history: what the last calls returned (never read by the code)
    budget,      \* how many more changes the environment may make
    reqPath,     \* the path the workers ask for
    dictOrder    \* the order a dict keyed by the remote URIs iterates in

vars == <<provider, enum, opts, upstream, repo, remoteMap, envCache, cache,
          pc, call, upd, event, hist, budget, reqPath, dictOrder>>

----------------------------------------------------------------------------
(* Python string operations on token sequences *)

Sep == "/"

\* the index of the first "/" of s, or 0
FindSep(s) ==
    IF \E i \in DOMAIN s : s[i] = Sep
    THEN CHOOSE i \in DOMAIN s : s[i] = Sep /\ \A j \in 1..(i - 1) : s[j] # Sep
    ELSE 0

\* the index of the last "/" of s, or 0
RFindSep(s) ==
    IF \E i \in DOMAIN s : s[i] = Sep
    THEN CHOOSE i \in DOMAIN s : s[i] = Sep /\ \A j \in (i + 1)..Len(s) : s[j] # Sep
    ELSE 0

\* s.partition('/')
Partition(s) ==
    LET i == FindSep(s)
    IN  IF i = 0 THEN <<s, <<>>, <<>>>>
        ELSE <<SubSeq(s, 1, i - 1), <<Sep>>, SubSeq(s, i + 1, Len(s))>>

\* s.rpartition('/')
RPartition(s) ==
    LET i == RFindSep(s)
    IN  IF i = 0 THEN <<<<>>, <<>>, s>>
        ELSE <<SubSeq(s, 1, i - 1), <<Sep>>, SubSeq(s, i + 1, Len(s))>>

RECURSIVE Replace(_)
\* s.replace('/', '_')
Replace(s) ==
    IF s = <<>> THEN <<>>
    ELSE <<IF Head(s) = Sep THEN "_" ELSE Head(s)>> \o Replace(Tail(s))

RECURSIVE SplitAll(_)
\* s.split('/')
SplitAll(s) ==
    LET i == FindSep(s)
    IN  IF i = 0 THEN <<s>>
        ELSE <<SubSeq(s, 1, i - 1)>> \o SplitAll(SubSeq(s, i + 1, Len(s)))

\* s.startswith(p)
StartsWith(s, p) == Len(p) <= Len(s) /\ SubSeq(s, 1, Len(p)) = p

\* s[n:]
Drop(s, n) == SubSeq(s, n + 1, Len(s))

\* the rank of a token in the order Python compares strings by
TokRank(t) ==
    CASE t = "/" -> 1
      [] t = "1" -> 2
      [] t = "2" -> 3
      [] t = "_" -> 4
      [] t = "a.txt" -> 5
      [] t = "base" -> 6
      [] t = "c" -> 7
      [] t = "d" -> 8
      [] t = "f" -> 9
      [] t = "heads" -> 10
      [] t = "master" -> 11
      [] t = "old" -> 12
      [] t = "origin" -> 13
      [] t = "refs" -> 14
      [] t = "remotes" -> 15
      [] t = "tags" -> 16
      [] t = "v" -> 17
      [] t = "x" -> 18
      [] OTHER -> 19

RECURSIVE LexLess(_, _)
\* a < b on strings
LexLess(a, b) ==
    IF b = <<>> THEN FALSE
    ELSE IF a = <<>> THEN TRUE
    ELSE IF Head(a) = Head(b) THEN LexLess(Tail(a), Tail(b))
    ELSE TokRank(Head(a)) < TokRank(Head(b))

RECURSIVE Listed(_)
\* list(S) without the sort: the elements in an order of the set's own, here
\* the descending one
Listed(S) ==
    IF S = {} THEN <<>>
    ELSE LET m == CHOOSE x \in S : \A y \in S \ {x} : LexLess(y, x)
         IN  <<m>> \o Listed(S \ {m})

RECURSIVE Sorted(_)
\* sorted(S) for a set (or duplicate-free list) of strings
Sorted(S) ==
    IF S = {} THEN <<>>
    ELSE LET m == CHOOSE x \in S : \A y \in S \ {x} : LexLess(x, y)
         IN  <<m>> \o Sorted(S \ {m})

Range(s) == {s[i] : i \in DOMAIN s}

\* int(s, 16) succeeds
HexTokens == {"1", "2", "a", "b", "c", "d", "e", "f"}
IsHex(s) == s # <<>> /\ \A i \in DOMAIN s : s[i] \in HexTokens

----------------------------------------------------------------------------
(* The universe the inputs are drawn from *)

Providers == {"gitpython", "pygit2", "dulwich"}

URIs == {"u1", "u2"}

\* hashlib.md5(repo_uri).hexdigest()
Md5(u) == IF u = "u1" THEN "h1" ELSE "h2"

Hashes == {Md5(u) : u \in URIs}

Master == <<"master">>
BaseEnv == <<"base">>
Fx == <<"f", "/", "x">>
F_x == <<"f", "_", "x">>
Old == <<"old">>

Heads(n) == <<"refs", "/", "heads", "/">> \o n
Tags(n) == <<"refs", "/", "tags", "/">> \o n
Remotes(n) == <<"refs", "/", "remotes", "/", "origin", "/">> \o n

\* commit ids are hexadecimal strings
ShaA == <<"c", "1">>
ShaB == <<"c", "2">>
Commits == {ShaA, ShaB}

\* commit.tree
CommitTree(c) == IF c = ShaA THEN "t1" ELSE "t2"

NoTree == "none"
NoBlob == "none"

\* the entries of a tree object: name -> (kind, object id)
TreeEntries(t) ==
    CASE t = "t1" -> ("a.txt" :> [kind |-> "blob", id |-> "b1"])
                     @@ ("d" :> [kind |-> "tree", id |-> "t3"])
      [] t = "t2" -> ("a.txt" :> [kind |-> "blob", id |-> "b2"])
                     @@ ("d" :> [kind |-> "tree", id |-> "t3"])
      [] t = "t3" -> ("a.txt" :> [kind |-> "blob", id |-> "b3"])
      [] OTHER -> ("d" :> [kind |-> "tree", id |-> "t3"])

\* the objects that are trees
IsTree(x) == x \in {"t1", "t2", "t3"}

\* the bytes of a blob; of a tree, its serialized entries
BlobData(b) ==
    CASE b = "b1" -> "data1"
      [] b = "b2" -> "data2"
      [] IsTree(b) -> "rawtree"
      [] OTHER -> "data3"

\* the refs a remote can hold, each with the commit it is created at
RefUniverse(u) ==
    IF u = "u1"
    THEN {<<Heads(Master), ShaA>>, <<Heads(Fx), ShaA>>,
          <<Tags(F_x), ShaB>>, <<Tags(Master), ShaB>>}
    ELSE {<<Heads(Old), ShaB>>}

RefNames(R) == {p[1] : p \in R}

RefCommit(R, r) == (CHOOSE p \in R : p[1] = r)[2]

IsBranchRef(r) == StartsWith(r, <<"refs", "/", "heads", "/">>)

\* the entry <tag>^{} a remote advertises next to an annotated tag: the commit
\* the tag object points to.  It is no ref: git and libgit2 store nothing for
\* it, and the dict dulwich's client.fetch returns holds it as a key.
Peeled(r) == r \o <<"^{}">>
IsPeeled(r) == r[Len(r)] = "^{}"

----------------------------------------------------------------------------
(* salt.utils.check_whitelist_blacklist and _env_is_exposed *)

CheckWhitelistBlacklist(value, whitelist, blacklist) ==
    IF whitelist = {} /\ blacklist = {} THEN TRUE
    ELSE IF blacklist = {} THEN value \in whitelist
    ELSE IF whitelist = {} THEN value \notin blacklist
    ELSE value \in whitelist /\ value \notin blacklist

EnvIsExposed(o, env) ==
    CheckWhitelistBlacklist(env, o.gitfs_env_whitelist, o.gitfs_env_blacklist)

----------------------------------------------------------------------------
(* The per-remote working dirs and init() *)

\* kind: "absent" (no dir), "empty", "repo", "invalid" (not a git repo)
NoDir == [kind |-> "absent", refs |-> {}, objs |-> {}, corrupt |-> FALSE, lk |-> 0]

EmptyDir == [NoDir EXCEPT !.kind = "empty"]

\* os.makedirs(rp_) when rp_ is no directory
MakeDirs(d) == IF d.kind = "absent" THEN EmptyDir ELSE d

\* _init_gitpython, _init_pygit2, _init_dulwich: <<the dir afterwards, whether a
\* repo object is returned, new>>
InitRepo(d) ==
    IF d.kind = "empty" THEN <<[d EXCEPT !.kind = "repo"], TRUE, TRUE>>
    ELSE IF d.kind = "invalid" THEN <<d, FALSE, FALSE>>
    ELSE <<d, TRUE, FALSE>>

\* salt.utils.repack_dictlist(__opts__['gitfs_remotes']).iteritems(): the list of
\* remotes becomes a dict keyed by URI, and the loop of init() visits the keys in
\* the order the dict iterates in, which is not the order of the list
DictKeys(remotes) == SelectSeq(dictOrder, LAMBDA u : u \in Range(remotes))

\* salt.utils.strip_proto: a leading <scheme>:// is removed
ProtoTokens == {"salt:"}
StripProto(s) ==
    IF Len(s) >= Len(<<"salt:", Sep, Sep>>)
       /\ s[1] \in ProtoTokens /\ s[2] = Sep /\ s[3] = Sep
    THEN Drop(s, Len(<<"salt:", Sep, Sep>>))
    ELSE s

\* a per-remote parameter is the set of the values given for it: none (None in
\* the code) or one
NoParams == [mountpoint |-> {}, root |-> {}]

\* repo_conf of a remote: the per-remote parameters, the mountpoint without its
\* scheme, and uri and hash
RepoConf(o, u) ==
    [uri |-> u, hash |-> Md5(u),
     mountpoint |-> {StripProto(m) : m \in o.remote_params[u].mountpoint},
     root |-> o.remote_params[u].root]

RECURSIVE InitLoop(_, _, _, _, _)
\* the loop of init() over the remotes from index i of keys on
InitLoop(R, o, keys, i, acc) ==
    IF i > Len(keys) THEN [repo |-> R, recs |-> acc.recs, new |-> acc.new]
    ELSE LET u == keys[i]
             h == Md5(u)
             t == InitRepo(MakeDirs(R[h]))
         IN  InitLoop([R EXCEPT ![h] = t[1]], o, keys, i + 1,
                      [recs |-> IF t[2]
                                THEN Append(acc.recs, RepoConf(o, u))
                                ELSE acc.recs,
                       new |-> acc.new \/ t[3]])

\* the lines init() writes to remote_map.txt
MapLines(recs) == [i \in DOMAIN recs |-> <<recs[i].hash, recs[i].uri>>]

\* a file that does not exist
NoFile == [exists |-> FALSE, data |-> <<>>]

File(data) == [exists |-> TRUE, data |-> data]

\* init(): the dirs and remote_map.txt afterwards, and the records returned
InitOp(R, M, o) ==
    LET l == InitLoop(R, o, DictKeys(o.gitfs_remotes), 1,
                      [recs |-> <<>>, new |-> FALSE])
    IN  [repo |-> l.repo,
         map |-> IF l.new THEN File(MapLines(l.recs)) ELSE M,
         recs |-> l.recs, new |-> l.new]

----------------------------------------------------------------------------
(* envs() *)

\* remote.stale_refs, _stale_refs_pygit2: `git remote prune --dry-run origin` asks
\* the remote which of the local remote-tracking refs it no longer has
StaleRefs(d, U) ==
    {r \in RefNames(d.refs) :
        /\ StartsWith(r, Remotes(<<>>))
        /\ Heads(Drop(r, Len(Remotes(<<>>)))) \notin RefNames(U)}

\* ref.name of a GitPython reference: the path below refs/<type>/
GitPythonName(r) == Drop(r, 4)

\* rspec as _envs_gitpython and _get_tree_gitpython derive it from ref.name
GitPythonRspec(r) ==
    LET parted == Partition(GitPythonName(r))
    IN  Replace(IF parted[3] # <<>> THEN parted[3] ELSE parted[1])

\* isinstance(ref, git.Head): local and remote-tracking branches
GitPythonIsHead(r) == r[3] \in {"heads", "remotes"}

GitPythonIsTag(r) == r[3] = "tags"

EnvsGitPython(d, U, o) ==
    LET stale == StaleRefs(d, U)
        name(r) == IF GitPythonRspec(r) = o.gitfs_base THEN BaseEnv
                   ELSE GitPythonRspec(r)
    IN  {name(r) : r \in {x \in RefNames(d.refs) :
                            /\ GitPythonIsHead(x)
                            /\ x \notin stale
                            /\ EnvIsExposed(o, name(x))}}
        \cup
        {GitPythonRspec(r) : r \in {x \in RefNames(d.refs) :
                            /\ GitPythonIsTag(x)
                            /\ EnvIsExposed(o, GitPythonRspec(x))}}

\* re.sub('^refs/', '', ref)
StripRefs(r) == IF StartsWith(r, <<"refs", "/">>) THEN Drop(r, 2) ELSE r

\* the environment name _envs_pygit2 and _get_tree_pygit2 derive from the part of
\* a remote-tracking ref after refs/remotes/
Pygit2BranchRspec(rspec) ==
    LET parted == Partition(rspec)
    IN  Replace(IF parted[3] # <<>> THEN parted[3] ELSE parted[1])

EnvsPygit2(d, U, o) ==
    LET stale == {Drop(r, 4) : r \in StaleRefs(d, U)}
        rtype(r) == Partition(StripRefs(r))[1]
        rspec(r) == Partition(StripRefs(r))[3]
        name(r) == IF Pygit2BranchRspec(rspec(r)) = o.gitfs_base THEN BaseEnv
                   ELSE Pygit2BranchRspec(rspec(r))
    IN  {name(r) : r \in {x \in RefNames(d.refs) :
                            /\ rtype(x) = <<"remotes">>
                            /\ rspec(x) \notin stale
                            /\ EnvIsExposed(o, name(x))}}
        \cup
        {rspec(r) : r \in {x \in RefNames(d.refs) :
                            /\ rtype(x) = <<"tags">>
                            /\ EnvIsExposed(o, rspec(x))}}

\* _dulwich_env_refs
DulwichEnvRefs(names) ==
    {x \in names :
        /\ \/ StartsWith(x, <<"refs", "/", "heads">>)
           \/ StartsWith(x, <<"refs", "/", "tags">>)
        /\ x[Len(x)] # "^{}"}

\* rtype, rspec = ref[5:].split('/', 1), then rspec.replace('/', '_')
DulwichRtype(r) == Partition(Drop(r, 2))[1]
DulwichRspec(r) == Replace(Partition(Drop(r, 2))[3])

EnvsDulwich(d, o) ==
    LET name(r) == IF DulwichRspec(r) = o.gitfs_base THEN BaseEnv
                   ELSE DulwichRspec(r)
    IN  {name(r) : r \in {x \in DulwichEnvRefs(RefNames(d.refs)) :
                            /\ DulwichRtype(x) = <<"heads">>
                            /\ EnvIsExposed(o, name(x))}}
        \cup
        {DulwichRspec(r) : r \in {x \in DulwichEnvRefs(RefNames(d.refs)) :
                            /\ DulwichRtype(x) = <<"tags">>
                            /\ EnvIsExposed(o, DulwichRspec(x))}}

\* the environments of one repo with the base branch left under its own name
EnvsOfRepoUnaliased(prov, d, U, o) ==
    LET plain == [o EXCEPT !.gitfs_base = <<>>]
    IN  CASE prov = "gitpython" -> EnvsGitPython(d, U, plain)
          [] prov = "pygit2" -> EnvsPygit2(d, U, plain)
          [] OTHER -> EnvsDulwich(d, plain)

\* the environments one repo contributes
EnvsOfRepo(prov, d, U, o) ==
    CASE prov = "gitpython" -> EnvsGitPython(d, U, o)
      [] prov = "pygit2" -> EnvsPygit2(d, U, o)
      [] OTHER -> EnvsDulwich(d, o)

\* salt.payload.Serial.dumps / load of the env list
Dumps(l) == <<"msgpack", l>>
Loads(f) == f[2]

\* salt.fileserver.check_env_cache: the content of envs.p when the file exists;
\* Serial.load yields None for a file with no data
CheckEnvCache(E) ==
    IF E.exists /\ E.data # <<>> THEN [hit |-> TRUE, ret |-> Loads(E.data)]
    ELSE [hit |-> FALSE, ret |-> <<>>]

\* the body of envs() after the cache check: R is the state of the dirs after init()
EnvsFresh(prov, R, recs, U, o) ==
    Sorted(UNION {EnvsOfRepo(prov, R[recs[i].hash], U[recs[i].uri], o) :
                    i \in DOMAIN recs})

\* envs(ignore_cache): the dirs and remote_map.txt afterwards, and the list returned
EnvsOp(prov, R, M, E, U, o, ignore_cache) ==
    IF ~ignore_cache /\ CheckEnvCache(E).hit
    THEN [repo |-> R, map |-> M, ret |-> CheckEnvCache(E).ret]
    ELSE LET i == InitOp(R, M, o)
         IN  [repo |-> i.repo, map |-> i.map,
              ret |-> EnvsFresh(prov, i.repo, i.recs, U, o)]

----------------------------------------------------------------------------
(* Tree resolution: _get_tree_gitpython, _get_tree_pygit2, _get_tree_dulwich.   *)
(* GitPython and pygit2 hand the refs over in an order the code does not fix    *)
(* (en), and the first match wins.  GitPython yields them sorted by path        *)
(* ("heads_first"); pygit2 yields loose refs before packed ones, so a loose tag *)
(* can come before a packed branch ("tags_first").                              *)

\* the commits of the object store whose id starts with short
CommitsWithPrefix(d, short) == {c \in d.objs : StartsWith(c, short)}

\* the full length of an object id
ShaLen == Len(ShaA)

\* the ref paths a revision name is looked up under (git's rev-parse rules)
RevParsePaths(short) ==
    <<short,
      <<"refs", "/">> \o short,
      Tags(short),
      Heads(short),
      <<"refs", "/", "remotes", "/">> \o short,
      <<"refs", "/", "remotes", "/">> \o short \o <<"/", "HEAD">>>>

\* the first element of the sequence order that is in the set S
FirstIn(order, S) ==
    order[CHOOSE i \in DOMAIN order :
            order[i] \in S /\ \A j \in 1..(i - 1) : order[j] \notin S]

\* repo.rev_parse(short), repo.revparse_single(short): the set holding the commit,
\* or {} when the library raises
RevParse(d, short) ==
    LET paths == RevParsePaths(short)
    IN  IF Range(paths) \cap RefNames(d.refs) # {}
        THEN {RefCommit(d.refs, FirstIn(paths, RefNames(d.refs)))}
        ELSE IF IsHex(short) /\ Cardinality(CommitsWithPrefix(d, short)) = 1
        THEN CommitsWithPrefix(d, short)
        ELSE {}

\* repo.refs, repo.listall_references(): the refs in the order the library yields
RefOrder(d, en) ==
    LET tags == {r \in RefNames(d.refs) : r[3] = "tags"}
    IN  IF en = "tags_first"
        THEN Sorted(tags) \o Sorted(RefNames(d.refs) \ tags)
        ELSE Sorted(RefNames(d.refs))

\* the part of _get_tree_gitpython and _get_tree_pygit2 after the loop over refs
RevParseTree(d, short, o) ==
    IF ~EnvIsExposed(o, short) THEN NoTree
    ELSE IF RevParse(d, short) # {}
    THEN CommitTree(CHOOSE c \in RevParse(d, short) : TRUE)
    ELSE NoTree

GetTreeGitPython(d, short, envlist, o, en) ==
    LET matches == {r \in RefNames(d.refs) :
                      /\ r[3] \in {"remotes", "tags"}
                      /\ GitPythonRspec(r) = short}
    IN  IF short \in Range(envlist) /\ matches # {}
        THEN CommitTree(RefCommit(d.refs, FirstIn(RefOrder(d, en), matches)))
        ELSE RevParseTree(d, short, o)

\* _, rtype, rspec = ref.split('/', 2)
Pygit2Rtype(r) == Partition(Partition(r)[3])[1]
Pygit2Rspec(r) == Pygit2BranchRspec(Partition(Partition(r)[3])[3])

GetTreePygit2(d, short, envlist, o, en) ==
    LET matches == {r \in RefNames(d.refs) :
                      /\ Pygit2Rtype(r) \in {<<"remotes">>, <<"tags">>}
                      /\ Pygit2Rspec(r) = short
                      /\ EnvIsExposed(o, Pygit2Rspec(r))}
    IN  IF short \in Range(envlist) /\ matches # {}
        THEN CommitTree(RefCommit(d.refs, FirstIn(RefOrder(d, en), matches)))
        ELSE RevParseTree(d, short, o)

\* the refs in the order _get_tree_dulwich visits them
DulwichRefOrder(d) == Sorted(DulwichEnvRefs(RefNames(d.refs)))

\* the id of a tree object
TreeObjId(t) == IF t = "t1" THEN <<"c", "a">> ELSE <<"c", "b">>

\* repo.object_store: the ids of the commits fetched and of their trees
ObjectStore(d) == d.objs \cup {TreeObjId(CommitTree(c)) : c \in d.objs}

\* the isinstance test left out: every object counts as a commit
DulwichAnyObject(d, x) == TRUE

\* isinstance(repo.get_object(x), dulwich.objects.Commit)
DulwichIsCommit(d, x) == x \in d.objs

\* the commit-id fallback of _get_tree_dulwich
DulwichShaTree(d, short, o) ==
    LET matches == {x \in ObjectStore(d) :
                      StartsWith(x, short) /\ DulwichIsCommit(d, x)}
    IN  IF ~EnvIsExposed(o, short) THEN NoTree
        ELSE IF ~IsHex(short) THEN NoTree
        ELSE IF Len(short) = ShaLen
        THEN IF short \in ObjectStore(d) /\ DulwichIsCommit(d, short)
             THEN CommitTree(short) ELSE NoTree
        ELSE IF Cardinality(matches) = 1
        THEN CommitTree(CHOOSE c \in matches : TRUE)
        ELSE NoTree

GetTreeDulwich(d, short, envlist, o) ==
    LET matches == {r \in DulwichEnvRefs(RefNames(d.refs)) :
                      /\ DulwichRspec(r) = short
                      /\ EnvIsExposed(o, DulwichRspec(r))}
    IN  IF short \in Range(envlist) /\ matches # {}
        THEN CommitTree(RefCommit(d.refs, FirstIn(DulwichRefOrder(d), matches)))
        ELSE DulwichShaTree(d, short, o)

GetTree(prov, d, short, envlist, o, en) ==
    CASE prov = "gitpython" -> GetTreeGitPython(d, short, envlist, o, en)
      [] prov = "pygit2" -> GetTreePygit2(d, short, envlist, o, en)
      [] OTHER -> GetTreeDulwich(d, short, envlist, o)

RECURSIVE DulwichWalkTree(_, _)
\* _dulwich_walk_tree: segs is path.split('/'), or <<>> for the empty path.
\* Each step replaces `tree` by the object the segment names, whatever its
\* type; subscripting a blob or None raises TypeError, a missing name KeyError.
DulwichWalkTree(tree, segs) ==
    IF segs = <<>> THEN tree
    ELSE IF ~IsTree(tree) THEN NoTree
    ELSE LET name == Head(segs)[1]
         IN  IF Len(Head(segs)) # 1 \/ name \notin DOMAIN TreeEntries(tree)
             THEN NoTree
             ELSE DulwichWalkTree(TreeEntries(tree)[name].id, Tail(segs))

\* the walk followed by the callers' isinstance(tree, Tree) test
WalkTree(tree, segs) ==
    LET t == DulwichWalkTree(tree, segs)
    IN  IF IsTree(t) THEN t ELSE NoTree

\* the blob find_file finds at repo_path in the tree, or NoBlob
BlobAt(tree, repo_path) ==
    LET parts == RPartition(repo_path)
        dir == WalkTree(tree, IF parts[1] = <<>> THEN <<>> ELSE SplitAll(parts[1]))
        name == IF Len(parts[3]) = 1 THEN parts[3][1] ELSE ""
    IN  IF tree = NoTree \/ dir = NoTree THEN NoBlob
        ELSE IF name \notin DOMAIN TreeEntries(dir) THEN NoBlob
        ELSE TreeEntries(dir)[name].id

----------------------------------------------------------------------------
(* The content cache: refs/<env>/<path> and hash/<env>/<path>.* *)

\* a text file that does not exist
NoText == [exists |-> FALSE, data |-> ""]

\* the environments find_file is called with, and the (relative) path
CallEnvs == {BaseEnv, F_x}
CallPath == <<"a.txt">>

\* the directories refs/<tgt_env> and hash/<tgt_env> can name
CacheEnvs == {Master, F_x}

\* the cache of one (tgt_env, path): the directories, the materialized file, the
\* blob_sha1 marker, the content-hash sidecar and the lock file
NoEntry ==
    [destdir |-> FALSE, hashdir |-> FALSE, dest |-> NoText, marker |-> NoText,
     hsum |-> NoText, lk |-> FALSE]

NoCache == [hashTop |-> FALSE, refsTop |-> FALSE, ent |-> [e \in CacheEnvs |-> NoEntry]]

\* os.makedirs(destdir) and os.makedirs(hashdir) in find_file
MakeCacheDirs(C, e) ==
    [hashTop |-> TRUE, refsTop |-> TRUE,
     ent |-> [C.ent EXCEPT ![e].destdir = TRUE, ![e].hashdir = TRUE]]

\* os.path.isabs(path)
IsAbs(path) == path # <<>> /\ Head(path) = Sep

\* os.path.join(cachedir, 'gitfs/refs', tgt_env, path)
DestPath(e, path) == <<"refs", "/">> \o e \o <<"/">> \o path

NotFound == [rel |-> <<>>, path |-> <<>>]

Found(e, path) == [rel |-> path, path |-> DestPath(e, path)]

----------------------------------------------------------------------------
(* purge_cache() *)

Reserved == {"hash", "refs", "envs.p", "remote_map.txt"}

\* os.listdir(bp_)
BaseListing(R, M, E, C) ==
    {h \in Hashes : R[h].kind # "absent"}
    \cup (IF M.exists THEN {"remote_map.txt"} ELSE {})
    \cup (IF E.exists THEN {"envs.p"} ELSE {})
    \cup (IF C.hashTop THEN {"hash"} ELSE {})
    \cup (IF C.refsTop THEN {"refs"} ELSE {})

\* the entries purge_cache keeps out of remove_dirs by name
KeepNames(x) == x \in Reserved

\* shutil.rmtree of the entries rm on the content cache
RmCache(C, rm) ==
    [hashTop |-> C.hashTop /\ "hash" \notin rm,
     refsTop |-> C.refsTop /\ "refs" \notin rm,
     ent |-> [e \in CacheEnvs |->
                [destdir |-> C.ent[e].destdir /\ "refs" \notin rm,
                 hashdir |-> C.ent[e].hashdir /\ "hash" \notin rm,
                 dest |-> IF "refs" \in rm THEN NoText ELSE C.ent[e].dest,
                 marker |-> IF "hash" \in rm THEN NoText ELSE C.ent[e].marker,
                 hsum |-> IF "hash" \in rm THEN NoText ELSE C.ent[e].hsum,
                 lk |-> C.ent[e].lk /\ "hash" \notin rm]]]

\* purge_cache(): the state afterwards, what was removed and the value returned
PurgeOp(R, M, E, C, o) ==
    LET listing == BaseListing(R, M, E, C)
        i == InitOp(R, M, o)
        rm == {x \in listing \ {i.recs[k].hash : k \in DOMAIN i.recs} :
                 ~KeepNames(x)}
    IN  [repo |-> [h \in Hashes |-> IF h \in rm THEN NoDir ELSE i.repo[h]],
         map |-> IF "remote_map.txt" \in rm THEN NoFile ELSE i.map,
         env |-> IF "envs.p" \in rm THEN NoFile ELSE E,
         cache |-> RmCache(C, rm),
         removed |-> rm,
         changed |-> rm # {}]

----------------------------------------------------------------------------
(* The fetch of one remote in update() *)

\* the local name of an upstream branch under refs/remotes/origin/
Tracking(r) == Remotes(Drop(r, 4))

\* the refs after `git fetch origin` (GitPython, pygit2): the remote-tracking
\* branches follow the remote, new tags are added, nothing is pruned
GitFetchRefs(d, U) ==
    LET new == {<<Tracking(p[1]), p[2]>> : p \in {q \in U : IsBranchRef(q[1])}}
               \cup {p \in U : /\ ~IsBranchRef(p[1])
                                /\ ~IsPeeled(p[1])
                                /\ p[1] \notin RefNames(d.refs)}
    IN  {p \in d.refs : p[1] \notin RefNames(new)} \cup new

\* GitPython: some FetchInfo has an old_commit, i.e. an existing ref moved
GitPythonMoved(d, U) ==
    \E p \in U : /\ IsBranchRef(p[1])
                 /\ Tracking(p[1]) \in RefNames(d.refs)
                 /\ RefCommit(d.refs, Tracking(p[1])) # p[2]

\* pygit2: fetch['received_objects']
Pygit2Received(d, U) == Cardinality({p[2] : p \in U} \ d.objs)

\* the dulwich branch after client.fetch returned refs_post = U
DulwichRefs(U) == {p \in U : p[1] \in DulwichEnvRefs(RefNames(U))}

\* the name the dir keeps an upstream ref under
LocalName(prov, r) ==
    IF prov # "dulwich" /\ IsBranchRef(r) THEN Tracking(r) ELSE r

\* a branch the dir already has points to another commit on the remote
BranchMoved(prov, d, U) ==
    \E p \in U : /\ IsBranchRef(p[1])
                 /\ LocalName(prov, p[1]) \in RefNames(d.refs)
                 /\ RefCommit(d.refs, LocalName(prov, p[1])) # p[2]

\* the refs of the remote are not the refs the dir has
RefsDiffer(prov, d, U) == {<<LocalName(prov, p[1]), p[2]>> : p \in U} # d.refs

\* the fetch of update() on a dir holding update.lk: the dir afterwards, whether
\* data['changed'] is set, and whether the iteration goes on to remove update.lk
FetchOne(prov, d, U) ==
    LET got == [d EXCEPT !.objs = @ \cup {p[2] : p \in U}]
    IN  CASE prov = "gitpython" ->
               IF d.corrupt THEN [dir |-> d, changed |-> FALSE, unlock |-> TRUE]
               ELSE [dir |-> [got EXCEPT !.refs = GitFetchRefs(d, U)],
                     changed |-> GitPythonMoved(d, U), unlock |-> TRUE]
          [] prov = "pygit2" ->
               IF d.corrupt THEN [dir |-> d, changed |-> FALSE, unlock |-> TRUE]
               ELSE [dir |-> [got EXCEPT !.refs = GitFetchRefs(d, U)],
                     changed |-> Pygit2Received(d, U) > 0, unlock |-> TRUE]
          [] OTHER ->
               IF d.corrupt THEN [dir |-> NoDir, changed |-> FALSE, unlock |-> FALSE]
               ELSE IF U = {} THEN [dir |-> d, changed |-> FALSE, unlock |-> FALSE]
               ELSE IF d.refs # U
               THEN [dir |-> [got EXCEPT !.refs = DulwichRefs(U)],
                     changed |-> TRUE, unlock |-> TRUE]
               ELSE [dir |-> got, changed |-> FALSE, unlock |-> TRUE]

----------------------------------------------------------------------------
(* The lookup of find_file: lines 963-1011 *)

\* the mountpoint test left out: no repo is skipped
MountSkipsNever(path, mountpoint) == FALSE

\* whether the repo is skipped for the path: the mountpoint test
MountSkips(path, mountpoint) ==
    mountpoint # <<>> /\ ~StartsWith(path, mountpoint \o <<Sep>>)

RECURSIVE LStrip(_)
\* s.lstrip('/')
LStrip(s) == IF s # <<>> /\ Head(s) = Sep THEN LStrip(Tail(s)) ELSE s

\* os.path.join(a, b)
PathJoin(a, b) ==
    IF b # <<>> /\ Head(b) = Sep THEN b
    ELSE IF a = <<>> \/ a[Len(a)] = Sep THEN a \o b
    ELSE a \o <<Sep>> \o b

\* repo_path: the path with the mountpoint stripped and the root prepended
RepoPath(path, mountpoint, root) ==
    LET stripped == LStrip(Drop(path, Len(mountpoint)))
    IN  IF root # <<>> THEN PathJoin(root, stripped) ELSE stripped

\* the per-remote value of a parameter, or the global one when it is None
ParamOr(values, global) ==
    IF values = {} THEN global ELSE CHOOSE v \in values : TRUE

\* the blob the repo of record rec holds for (tgt_env, path), or NoBlob
RepoBlob(prov, d, rec, envlist, o, en, tgt_env, path) ==
    LET root == ParamOr(rec.root, o.gitfs_root)
        mountpoint == ParamOr(rec.mountpoint, StripProto(o.gitfs_mountpoint))
    IN  IF MountSkips(path, mountpoint) THEN NoBlob
        ELSE BlobAt(GetTree(prov, d, tgt_env, envlist, o, en),
                    RepoPath(path, mountpoint, root))

\* the blob of the first repo of recs that holds one, or NoBlob
Lookup(prov, R, recs, envlist, o, en, tgt_env, path) ==
    LET hits == {i \in DOMAIN recs :
                   RepoBlob(prov, R[recs[i].hash], recs[i], envlist, o, en,
                            tgt_env, path) # NoBlob}
    IN  IF hits = {} THEN NoBlob
        ELSE LET first == CHOOSE i \in hits : \A j \in hits : i <= j
             IN  RepoBlob(prov, R[recs[first].hash], recs[first], envlist, o, en,
                          tgt_env, path)

\* some file lies under gitfs/hash: the reaper calls find_file for each
HasSidecars(C) ==
    \E e \in CacheEnvs :
        C.ent[e].marker.exists \/ C.ent[e].hsum.exists \/ C.ent[e].lk

\* salt.fileserver.reap_fileserver_cache_dir on gitfs/hash: the sidecars of a file
\* that no repo holds any more are evicted
Reap(C, prov, R, recs, envlist, o, en, path) ==
    [C EXCEPT !.ent =
        [e \in CacheEnvs |->
            IF C.ent[e].hashdir
               /\ Lookup(prov, R, recs, envlist, o, en, e, path) = NoBlob
            THEN [C.ent[e] EXCEPT !.marker = NoText, !.hsum = NoText]
            ELSE C.ent[e]]]

----------------------------------------------------------------------------
(* State *)

Procs == {"w1", "w2"}

\* os.getpid() of the process running update()
UpdPid == 1

\* the pid of a process that ran update() and died
DeadPid == 2

IdleUpd ==
    [pc |-> "idle", recs |-> <<>>, i |-> 0, changed |-> FALSE, new_envs |-> <<>>]

NoCall == [env |-> <<>>, path |-> <<>>, arg |-> <<>>, blob |-> NoBlob]

\* nothing observed
NoEnvsObs == [valid |-> FALSE, ignore |-> FALSE, ret |-> <<>>, file |-> NoFile]
NoFindObs ==
    [valid |-> FALSE, arg |-> <<>>, ret |-> NotFound, wrote |-> FALSE,
     second |-> FALSE, same |-> FALSE, fast |-> FALSE, peers |-> {}]
NoDel == [valid |-> FALSE, uri |-> "", ref |-> <<>>]
NoInitObs == [valid |-> FALSE, recs |-> <<>>, new |-> FALSE, before |-> NoFile]
NoFinObs ==
    [valid |-> FALSE, raised |-> FALSE, changed |-> FALSE, before |-> NoFile,
     again |-> FALSE]
NoListObs ==
    [valid |-> FALSE, form |-> "", env |-> <<>>, raised |-> FALSE, ret |-> <<>>,
     given |-> {}, load |-> {}]
NoApiObs ==
    [valid |-> FALSE, op |-> "", raised |-> FALSE, shape |-> "", keys |-> {},
     env |-> <<>>, hsum |-> ""]

\* hist.envs: the last envs() call; hist.find: the last find_file call that
\* returned, whether it wrote, whether it followed a call with the same argument
\* with nothing in between (second) and returned the same as that call (same),
\* whether it returned from the fast-path check (fast), and where the other
\* workers with a call for the same file were at that moment (peers);
\* both are forgotten when anything else changes the state.  hist.synced:
\* update() has completed since the remotes, the configuration or the dirs
\* were last changed from outside.  hist.del: the branch
\* whose deletion was the last change of the remotes.  hist.removed: the entries
\* of the base dir purge_cache removed in the running (or last) update(), and
\* hist.rmrf: the cache dirs its fetch loop removed.  hist.before: the listing of
\* the base dir when that update() started.  hist.dropped: the remotes taken out
\* of gitfs_remotes since the last completed update().  hist.corrupt: the working
\* dirs whose object store was damaged when the running (or last) update()
\* fetched them.  hist.moved: some fetch of that update() found a branch it
\* already had at another commit on the remote, and hist.differs: some fetch
\* found the refs of the remote different from its own.  hist.init: the
\* records the last init() call of the master returned, whether it initialized
\* a new remote, and remote_map.txt before the call.  hist.list: the
\* file_list or dir_list call that was the last step: its form, environment,
\* whether it raised, and the list returned.  hist.api: how the
\* serve_file or file_hash call that was the last step ended: by an exception (raised), or with a
\* value of the given shape and keys, for which cache directory (env) and with
\* which digest (hsum).
\* hist.stale: the working dirs that held an update.lk when the running (or
\* last) update() started, and hist.fetched: the remotes whose fetch it has
\* called, in order.
\* hist.fin.again: that update() started when the previous one had completed
\* and nothing was changed from outside since.
\* hist.fin: the end of the running (or last) update(): whether it returned
\* (valid) or ended by an exception (raised), the value of data['changed'] and
\* envs.p as its last step found it.
\* hist.found: the environments find_file has returned a non-empty result for,
\* which its callers hand on to serve_file and file_hash.
NoHist ==
    [envs |-> NoEnvsObs, find |-> NoFindObs, init |-> NoInitObs,
     list |-> NoListObs,
     api |-> NoApiObs, found |-> {},
     wrote |-> [p \in Procs |-> FALSE], synced |-> FALSE, del |-> NoDel,
     removed |-> {}, rmrf |-> {}, before |-> {}, dropped |-> {}, corrupt |-> {},
     moved |-> FALSE, differs |-> FALSE, fin |-> NoFinObs, stale |-> {},
     fetched |-> <<>>]

\* what an outside change leaves of the history
Forget(h) ==
    [h EXCEPT !.envs = NoEnvsObs, !.find = NoFindObs, !.init = NoInitObs, !.list = NoListObs,
              !.api = NoApiObs, !.synced = FALSE, !.del = NoDel, !.removed = {}, !.rmrf = {},
              !.before = {}, !.dropped = IF h.synced THEN {} ELSE @,
              !.corrupt = {}, !.moved = FALSE, !.differs = FALSE,
              !.fin = NoFinObs, !.stale = {}, !.fetched = <<>>]

\* what a step of update() leaves of the history
ForgetCalls(h) ==
    [h EXCEPT !.envs = NoEnvsObs, !.find = NoFindObs, !.init = NoInitObs, !.list = NoListObs,
              !.api = NoApiObs]

NoEvent ==
    [fired |-> FALSE, tag |-> <<>>, changed |-> FALSE, backend |-> "",
     cached |-> FALSE]

\* tagify(['gitfs', 'update'], prefix='fileserver')
UpdateTag == <<"fileserver", Sep, "gitfs", Sep, "update">>

AllIdle == \A p \in Procs : pc[p] = "idle"

Quiet == AllIdle /\ upd.pc = "idle"

workerVars == <<pc, call>>
confVars == <<provider, enum, opts, reqPath, dictOrder>>

----------------------------------------------------------------------------
(* update() *)

\* the updater after the iteration for repo upd.i
NextRepo(u) ==
    IF u.i < Len(u.recs) THEN [u EXCEPT !.pc = "lock", !.i = @ + 1]
    ELSE [u EXCEPT !.pc = "finish"]

\* lines 718-723: purge_cache(), then init() for the loop
UpdateStart ==
    /\ upd.pc = "idle"
    /\ LET pg == PurgeOp(repo, remoteMap, envCache, cache, opts)
           i == InitOp(pg.repo, pg.map, opts)
       IN  /\ repo' = i.repo
           /\ remoteMap' = i.map
           /\ envCache' = pg.env
           /\ cache' = pg.cache
           /\ upd' = [pc |-> IF i.recs = <<>> THEN "finish" ELSE "lock",
                      recs |-> i.recs, i |-> 1, changed |-> pg.changed,
                      new_envs |-> <<>>]
           /\ hist' = [ForgetCalls(hist) EXCEPT
                         !.removed = pg.removed, !.rmrf = {}, !.corrupt = {},
                         !.moved = FALSE, !.differs = FALSE,
                         !.fin = [NoFinObs EXCEPT !.again = hist.synced],
                         !.stale = {h \in Hashes : repo[h].lk # 0},
                         !.fetched = <<>>,
                         !.before = BaseListing(repo, remoteMap, envCache, cache)]
           /\ event' = NoEvent
    /\ UNCHANGED <<confVars, upstream, workerVars, budget>>

\* lines 735-737 as they would be if update.lk were created exclusively: an
\* existing file makes the open raise
WriteLockExcl(d) ==
    IF d.kind = "absent" \/ d.lk # 0 THEN [raised |-> TRUE, dir |-> d]
    ELSE [raised |-> FALSE, dir |-> [d EXCEPT !.lk = UpdPid]]

\* lines 735-737: fopen(lk_fn, 'w+') creates update.lk or truncates the one
\* that exists, and the pid is written; the open raises when the working dir
\* is gone
WriteLock(d) ==
    IF d.kind = "absent" THEN [raised |-> TRUE, dir |-> d]
    ELSE [raised |-> FALSE, dir |-> [d EXCEPT !.lk = UpdPid]]

\* lines 735-737: update.lk is written with the pid; when the open raises
\* update() ends there
UpdateLock ==
    /\ upd.pc = "lock"
    /\ LET h == upd.recs[upd.i].hash
           w == WriteLock(repo[h])
       IN  /\ upd' = IF w.raised THEN IdleUpd ELSE [upd EXCEPT !.pc = "fetch"]
           /\ repo' = [repo EXCEPT ![h] = w.dir]
           /\ hist' = [ForgetCalls(hist) EXCEPT !.fin.raised = w.raised]
    /\ UNCHANGED <<confVars, upstream, remoteMap, envCache, cache, workerVars,
                   event, budget>>

\* lines 738-791 without the except clause of lines 788-791 and with the
\* KeyError of line 756 let through: a failing fetch ends update()
UpdateFetchUncaught ==
    /\ upd.pc = "fetch"
    /\ LET r == upd.recs[upd.i]
           f == FetchOne(provider, repo[r.hash], upstream[r.uri])
           u == [upd EXCEPT !.changed = @ \/ f.changed]
       IN  IF repo[r.hash].corrupt
           THEN /\ repo' = repo
                /\ upd' = IdleUpd
                /\ hist' = [ForgetCalls(hist) EXCEPT
                              !.fetched = Append(@, r.uri),
                              !.corrupt = @ \cup {r.hash},
                              !.fin.raised = TRUE]
           ELSE /\ repo' = [repo EXCEPT ![r.hash] = f.dir]
                /\ upd' = IF f.unlock THEN [u EXCEPT !.pc = "unlock"]
                           ELSE NextRepo(u)
                /\ hist' = [ForgetCalls(hist) EXCEPT
                              !.fetched = Append(@, r.uri)]
    /\ UNCHANGED <<confVars, upstream, remoteMap, envCache, cache, workerVars,
                   event, budget>>

\* lines 738-791: the fetch of one remote
UpdateFetch ==
    /\ upd.pc = "fetch"
    /\ LET r == upd.recs[upd.i]
           f == FetchOne(provider, repo[r.hash], upstream[r.uri])
           u == [upd EXCEPT !.changed = @ \/ f.changed]
       IN  /\ repo' = [repo EXCEPT ![r.hash] = f.dir]
           /\ upd' = IF f.unlock THEN [u EXCEPT !.pc = "unlock"] ELSE NextRepo(u)
           /\ hist' = [ForgetCalls(hist) EXCEPT
                         !.rmrf = IF repo[r.hash].kind # "absent"
                                     /\ f.dir.kind = "absent"
                                  THEN @ \cup {r.hash} ELSE @,
                         !.fetched = Append(@, r.uri),
                         !.corrupt = IF repo[r.hash].corrupt
                                     THEN @ \cup {r.hash} ELSE @,
                         !.moved = @ \/ BranchMoved(provider, repo[r.hash],
                                                    upstream[r.uri]),
                         !.differs = @ \/ RefsDiffer(provider, repo[r.hash],
                                                     upstream[r.uri])]
    /\ UNCHANGED <<confVars, upstream, remoteMap, envCache, cache, workerVars,
                   event, budget>>

\* lines 792-795: update.lk is removed
UpdateUnlock ==
    /\ upd.pc = "unlock"
    /\ LET h == upd.recs[upd.i].hash
       IN  repo' = [repo EXCEPT ![h].lk = IF repo[h].kind = "absent" THEN @ ELSE 0]
    /\ upd' = NextRepo(upd)
    /\ hist' = ForgetCalls(hist)
    /\ UNCHANGED <<confVars, upstream, remoteMap, envCache, cache, workerVars,
                   event, budget>>

\* lines 804-816: the event and the reaper, once envs.p holds E; R and M are the
\* dirs and remote_map.txt left by lines 797-803, B is envs.p before the step
UpdateTail(R, M, E, B) ==
    \* the reaper's find_file calls init() and envs()
    LET i == InitOp(R, M, opts)
    IN  /\ event' = IF opts.fileserver_events
                    THEN [fired |-> TRUE, tag |-> UpdateTag,
                          changed |-> upd.changed, backend |-> "gitfs",
                          cached |-> E.exists]
                    ELSE event
        /\ IF HasSidecars(cache)
           THEN /\ repo' = i.repo
                /\ remoteMap' = i.map
                /\ cache' = Reap(cache, provider, i.repo, i.recs,
                                 CheckEnvCache(E).ret, opts, enum, reqPath)
           ELSE /\ repo' = R
                /\ remoteMap' = M
                /\ cache' = cache
        /\ upd' = IdleUpd
        /\ hist' = [ForgetCalls(hist) EXCEPT
                      !.synced = TRUE,
                      !.fin = [valid |-> TRUE, raised |-> FALSE,
                               changed |-> upd.changed,
                               before |-> B, again |-> hist.fin.again]]
        /\ UNCHANGED <<confVars, upstream, workerVars, budget>>

\* the process running update() dies between the writing of update.lk and its
\* removal; the file stays, holding the pid of the dead process
UpdateDies ==
    /\ upd.pc \in {"fetch", "unlock"}
    /\ budget.dmg > 0
    /\ repo' = [repo EXCEPT ![upd.recs[upd.i].hash].lk = DeadPid]
    /\ upd' = IdleUpd
    /\ budget' = [budget EXCEPT !.dmg = @ - 1]
    /\ hist' = ForgetCalls(hist)
    /\ UNCHANGED <<confVars, upstream, remoteMap, envCache, cache, workerVars,
                   event>>

\* lines 797-816 with the condition of line 798 reduced to data['changed']
UpdateFinishIfChanged ==
    /\ upd.pc = "finish"
    /\ LET regen == upd.changed
           e == EnvsOp(provider, repo, remoteMap, envCache, upstream, opts, TRUE)
           E == IF regen THEN File(Dumps(e.ret)) ELSE envCache
       IN  /\ envCache' = E
           /\ UpdateTail(IF regen THEN e.repo ELSE repo,
                         IF regen THEN e.map ELSE remoteMap, E, envCache)

\* lines 797-816: the env cache, the event and the reaper
UpdateFinish ==
    /\ upd.pc = "finish"
    /\ LET regen == upd.changed \/ ~envCache.exists
           e == EnvsOp(provider, repo, remoteMap, envCache, upstream, opts, TRUE)
           E == IF regen THEN File(Dumps(e.ret)) ELSE envCache
       IN  /\ envCache' = E
           /\ UpdateTail(IF regen THEN e.repo ELSE repo,
                         IF regen THEN e.map ELSE remoteMap, E, envCache)

\* lines 797-800: envs(ignore_cache=True) is computed and envs.p is opened
\* with mode 'w+', which truncates it
UpdateOpenEnvCache ==
    /\ upd.pc = "finish"
    /\ upd.changed \/ ~envCache.exists
    /\ LET e == EnvsOp(provider, repo, remoteMap, envCache, upstream, opts, TRUE)
       IN  /\ repo' = e.repo
           /\ remoteMap' = e.map
           /\ upd' = [upd EXCEPT !.pc = "write", !.new_envs = e.ret]
    /\ envCache' = File(<<>>)
    /\ hist' = ForgetCalls(hist)
    /\ UNCHANGED <<confVars, upstream, cache, workerVars, event, budget>>

\* lines 801-816: the serialized list is written and the file closed; then the
\* event and the reaper
UpdateWriteEnvCache ==
    /\ upd.pc = "write"
    /\ envCache' = File(Dumps(upd.new_envs))
    /\ UpdateTail(repo, remoteMap, File(Dumps(upd.new_envs)), envCache)

\* lines 797-798, 804-816: the condition of line 798 is false and envs.p is
\* left alone
UpdateKeepEnvCache ==
    /\ upd.pc = "finish"
    /\ ~(upd.changed \/ ~envCache.exists)
    /\ envCache' = envCache
    /\ UpdateTail(repo, remoteMap, envCache, envCache)

----------------------------------------------------------------------------
(* find_file(path, tgt_env), one step at a time *)

\* the history after a step of worker p that wrote (w) or did not
Wrote(p, w) ==
    [hist EXCEPT !.wrote[p] = @ \/ w, !.envs = NoEnvsObs, !.init = NoInitObs, !.list = NoListObs,
                 !.api = NoApiObs]

\* the history when worker p's call with argument arg returns r after a last
\* step that wrote (w) or did not
Returned(p, arg, w, r) ==
    [hist EXCEPT !.wrote[p] = FALSE,
                 !.envs = NoEnvsObs,
                 !.init = NoInitObs, !.list = NoListObs,
                 !.api = NoApiObs,
                 !.found = IF r = NotFound THEN @ ELSE @ \cup {call[p].env},
                 !.find = [valid |-> TRUE, arg |-> arg, ret |-> r,
                           wrote |-> hist.wrote[p] \/ w,
                           second |-> hist.find.valid /\ hist.find.arg = arg,
                           same |-> hist.find.ret = r,
                           fast |-> pc[p] = "check",
                           peers |-> {pc[q] : q \in {x \in Procs \ {p} :
                                        call[x].env = call[p].env}}]]

\* lines 934-935: an absolute path returns the empty result at once
FFAbsolute(p, env) ==
    /\ pc[p] = "idle"
    /\ IsAbs(reqPath)
    /\ hist' = Returned(p, env, FALSE, NotFound)
    /\ UNCHANGED <<confVars, upstream, repo, remoteMap, envCache, cache,
                   workerVars, upd, event, budget>>

\* lines 936-1011: the directories are made, init() is called and the blob is
\* looked up; a miss returns the empty result
FFBegin(p, env) ==
    /\ pc[p] = "idle"
    /\ ~IsAbs(reqPath)
    /\ LET tgt_env == IF env = BaseEnv THEN opts.gitfs_base ELSE env
           C == MakeCacheDirs(cache, tgt_env)
           i == InitOp(repo, remoteMap, opts)
           envlist == EnvsOp(provider, i.repo, i.map, envCache, upstream, opts,
                             FALSE).ret
           blob == Lookup(provider, i.repo, i.recs, envlist, opts, enum,
                          tgt_env, reqPath)
           w == C # cache \/ i.repo # repo \/ i.map # remoteMap
       IN  /\ cache' = C
           /\ repo' = i.repo
           /\ remoteMap' = i.map
           /\ IF blob = NoBlob
              THEN /\ pc' = pc
                   /\ call' = call
                   /\ hist' = Returned(p, env, w, NotFound)
              ELSE /\ pc' = [pc EXCEPT ![p] = "wait"]
                   /\ call' = [call EXCEPT ![p] = [env |-> tgt_env,
                                                   path |-> reqPath,
                                                   arg |-> env, blob |-> blob]]
                   /\ hist' = Wrote(p, w)
    /\ UNCHANGED <<confVars, upstream, envCache, upd, event, budget>>

\* line 1013: salt.fileserver.wait_lock returns once the lock file is absent
FFWaitLock(p) ==
    /\ pc[p] = "wait"
    /\ ~cache.ent[call[p].env].lk
    /\ pc' = [pc EXCEPT ![p] = "check"]
    /\ UNCHANGED <<confVars, upstream, repo, remoteMap, envCache, cache, call,
                   upd, event, hist, budget>>

\* the test of lines 1014-1017 with the comparison of the marker turned around
FastPathOnMismatch(e, blob) ==
    e.marker.exists /\ e.dest.exists /\ e.marker.data # blob

\* whether the test of lines 1014-1017 succeeds for the blob id
FastPath(e, blob) == e.marker.exists /\ e.dest.exists /\ e.marker.data = blob

\* lines 1014-1020: the fast path
FFCheck(p) ==
    /\ pc[p] = "check"
    /\ IF FastPath(cache.ent[call[p].env], call[p].blob)
       THEN /\ pc' = [pc EXCEPT ![p] = "idle"]
            /\ call' = [call EXCEPT ![p] = NoCall]
            /\ hist' = Returned(p, call[p].arg, FALSE,
                                Found(call[p].env, call[p].path))
       ELSE /\ pc' = [pc EXCEPT ![p] = "lock"]
            /\ call' = call
            /\ hist' = hist
    /\ UNCHANGED <<confVars, upstream, repo, remoteMap, envCache, cache, upd,
                   event, budget>>

\* a step of the slow path: the cache entry becomes e, the worker moves to next
SlowStep(p, e, next) ==
    /\ cache' = [cache EXCEPT !.ent[call[p].env] = e]
    /\ pc' = [pc EXCEPT ![p] = next]
    /\ hist' = Wrote(p, TRUE)
    /\ UNCHANGED <<confVars, upstream, repo, remoteMap, envCache, call, upd,
                   event, budget>>

\* lines 1021-1022: the lock file is created
FFLock(p) ==
    /\ pc[p] = "lock"
    /\ SlowStep(p, [cache.ent[call[p].env] EXCEPT !.lk = TRUE], "glob")

\* lines 1023-1027 left out: the sidecars stay while the destination is rewritten
FFKeepHashes(p) ==
    /\ pc[p] = "glob"
    /\ SlowStep(p, cache.ent[call[p].env], "open")

\* lines 1023-1027: every <path>.hash.* is removed, the marker among them
FFRmHashes(p) ==
    /\ pc[p] = "glob"
    /\ SlowStep(p, [cache.ent[call[p].env] EXCEPT !.marker = NoText,
                                                 !.hsum = NoText], "open")

\* line 1028: the destination is opened for writing, which truncates it
FFOpenDest(p) ==
    /\ pc[p] = "open"
    /\ SlowStep(p, [cache.ent[call[p].env] EXCEPT !.dest = File("")], "write")

\* lines 1029-1034: the object found is written to the destination.  GitPython's
\* stream_data and dulwich's as_raw_string exist for every object type; a
\* pygit2 Tree has no `data`, and the AttributeError ends the call with the
\* lock file and the empty destination in place
FFWriteDest(p) ==
    /\ pc[p] = "write"
    /\ IF provider = "pygit2" /\ IsTree(call[p].blob)
       THEN /\ pc' = [pc EXCEPT ![p] = "idle"]
            /\ call' = [call EXCEPT ![p] = NoCall]
            /\ hist' = [Wrote(p, TRUE) EXCEPT !.wrote[p] = FALSE,
                                              !.find = NoFindObs]
            /\ UNCHANGED <<confVars, upstream, repo, remoteMap, envCache,
                           cache, upd, event, budget>>
       ELSE SlowStep(p, [cache.ent[call[p].env] EXCEPT
                           !.dest = File(BlobData(call[p].blob))], "marker")

\* lines 1035-1036: the blob id is written to the marker
FFWriteMarker(p) ==
    /\ pc[p] = "marker"
    /\ SlowStep(p, [cache.ent[call[p].env] EXCEPT
                      !.marker = File(call[p].blob)], "unlock")

\* lines 1037-1043: the lock file is removed and the result returned
FFUnlock(p) ==
    /\ pc[p] = "unlock"
    /\ cache' = [cache EXCEPT !.ent[call[p].env].lk = FALSE]
    /\ pc' = [pc EXCEPT ![p] = "idle"]
    /\ call' = [call EXCEPT ![p] = NoCall]
    /\ hist' = Returned(p, call[p].arg, TRUE, Found(call[p].env, call[p].path))
    /\ UNCHANGED <<confVars, upstream, repo, remoteMap, envCache, upd, event,
                   budget>>

\* the positions between the creation of <path>.lk and its removal
SlowPcs == {"glob", "open", "write", "marker", "unlock"}

FindFileStep(p) ==
    \/ FFWaitLock(p)
    \/ FFCheck(p)
    \/ FFLock(p)
    \/ FFRmHashes(p)
    \/ FFOpenDest(p)
    \/ FFWriteDest(p)
    \/ FFWriteMarker(p)
    \/ FFUnlock(p)

----------------------------------------------------------------------------
(* serve_file(load, fnd) and file_hash(load, fnd) *)

\* getattr(hashlib, hash_type)(data).hexdigest()
HashSum(data) ==
    CASE data = "data1" -> "sum1"
      [] data = "data2" -> "sum2"
      [] data = "data3" -> "sum3"
      [] OTHER -> "sum0"

\* a load: each key holds the set of its values, empty when the key is missing
Load(path, saltenv) ==
    [path |-> {path}, saltenv |-> {saltenv}, loc |-> {"0"}, env |-> {}]

\* the load of a caller that still passes the environment as 'env'
LegacyLoad(path, env) == [Load(path, env) EXCEPT !.saltenv = {}, !.env = {env}]

\* the loads of a request for (saltenv, path): the full one, those lacking
\* 'saltenv' or 'path', and the legacy one
LoadChoices(path, saltenv) ==
    {Load(path, saltenv),
     [Load(path, saltenv) EXCEPT !.saltenv = {}],
     [Load(path, saltenv) EXCEPT !.path = {}],
     LegacyLoad(path, saltenv)}

\* the loads of file_list and dir_list: no path and no loc
ListLoads(saltenv) ==
    {[l EXCEPT !.path = {}, !.loc = {}] :
       l \in {Load(<<>>, saltenv), LegacyLoad(<<>>, saltenv),
              LegacyLoad(<<>>, BaseEnv)}}

\* if 'env' in load: load['saltenv'] = load.pop('env')
MoveEnv(load) ==
    IF load.env # {} THEN [load EXCEPT !.saltenv = load.env, !.env = {}] ELSE load

\* the fnd values a caller holds for (saltenv, path): the lookup miss, and what
\* find_file returned once the file was materialized
Fnds(saltenv) ==
    LET short == IF saltenv = BaseEnv THEN opts.gitfs_base ELSE saltenv
    IN  {NotFound} \cup (IF short \in hist.found
                         THEN {Found(short, reqPath)} ELSE {})

\* the call of worker p ends: by an exception, or with a value
ApiEnds(p, op, raised, shape, keys, env, hsum) ==
    /\ pc' = [pc EXCEPT ![p] = "idle"]
    /\ call' = [call EXCEPT ![p] = NoCall]
    /\ hist' = [hist EXCEPT !.api = [valid |-> TRUE, op |-> op, raised |-> raised,
                                     shape |-> shape, keys |-> keys,
                                     env |-> env, hsum |-> hsum]]

\* serve_file, lines 1059-1074
ServeFile(p, given, fnd) ==
    /\ pc[p] = "idle"
    /\ LET load == MoveEnv(given)
       IN  IF load.path = {} \/ load.loc = {} \/ load.saltenv = {}
              \/ fnd.path = <<>>
           THEN ApiEnds(p, "serve_file", FALSE, "dict", {"data", "dest"}, <<>>, "")
           ELSE \* the materialized file is opened and read
                LET e == CHOOSE x \in CacheEnvs : DestPath(x, fnd.rel) = fnd.path
                IN  ApiEnds(p, "serve_file", ~cache.ent[e].dest.exists, "dict",
                            {"data", "dest"}, <<>>, "")
    /\ UNCHANGED <<confVars, upstream, repo, remoteMap, envCache, cache, upd,
                   event, budget>>

\* file_hash, lines 1089-1106 and 1110-1113: up to the reading of the sidecar or
\* of the file
FHBegin(p, given, fnd) ==
    /\ pc[p] = "idle"
    /\ LET load == MoveEnv(given)
           saltenv == CHOOSE x \in load.saltenv : TRUE
           short == IF saltenv = BaseEnv THEN opts.gitfs_base ELSE saltenv
       IN  IF load.path = {} \/ load.saltenv = {}
           THEN ApiEnds(p, "file_hash", FALSE, "str", {}, <<>>, "")
           ELSE IF fnd.rel # <<>> /\ short \in CacheEnvs
                   /\ cache.ent[short].hsum.exists
           THEN \* the sidecar is read
                ApiEnds(p, "file_hash", FALSE, "dict", {"hash_type", "hsum"},
                        short, cache.ent[short].hsum.data)
           ELSE IF fnd.path = <<>> \/ short \notin CacheEnvs
                   \/ ~cache.ent[short].dest.exists
           THEN \* fopen(path, 'rb') raises
                ApiEnds(p, "file_hash", TRUE, "", {}, <<>>, "")
           ELSE /\ pc' = [pc EXCEPT ![p] = "hwrite"]
                /\ call' = [call EXCEPT ![p] =
                              [env |-> short, path |-> fnd.rel, arg |-> saltenv,
                               blob |-> HashSum(cache.ent[short].dest.data)]]
                /\ hist' = hist
    /\ UNCHANGED <<confVars, upstream, repo, remoteMap, envCache, cache, upd,
                   event, budget>>

\* file_hash, lines 1107-1109: the digest is written to the sidecar and returned
FHWrite(p) ==
    /\ pc[p] = "hwrite"
    /\ IF cache.ent[call[p].env].hashdir
       THEN /\ cache' = [cache EXCEPT !.ent[call[p].env].hsum = File(call[p].blob)]
            /\ ApiEnds(p, "file_hash", FALSE, "dict", {"hash_type", "hsum"},
                       call[p].env, call[p].blob)
       ELSE /\ cache' = cache
            /\ ApiEnds(p, "file_hash", TRUE, "", {}, <<>>, "")
    /\ UNCHANGED <<confVars, upstream, repo, remoteMap, envCache, upd, event,
                   budget>>

----------------------------------------------------------------------------
(* file_list(load) and dir_list(load): _get_file_list, _get_dir_list and the    *)
(* per-provider _file_list_* and _dir_list_*, as computed when the file list    *)
(* cache is refreshed                                                           *)

RECURSIVE Traverse(_, _, _)
\* _traverse(tree, repo, blobs, prefix) and tree.traverse(): the paths of the
\* objects of the kind below the tree, each prefixed with prefix
Traverse(tree, prefix, kind) ==
    UNION {(IF TreeEntries(tree)[n].kind = kind
            THEN {PathJoin(prefix, <<n>>)} ELSE {})
           \cup (IF TreeEntries(tree)[n].kind = "tree"
                 THEN Traverse(TreeEntries(tree)[n].id, PathJoin(prefix, <<n>>), kind)
                 ELSE {}) : n \in DOMAIN TreeEntries(tree)}

\* os.path.relpath(path, root) for a path below root
RelPath(path, root) ==
    IF StartsWith(path, root \o <<Sep>>) THEN Drop(path, Len(root \o <<Sep>>))
    ELSE <<"..", Sep>> \o path

\* the type of the object `tree / path` (GitPython) hands back, "none" when it
\* raises KeyError
JoinKind(tree, path) ==
    LET parts == RPartition(path)
        dir == WalkTree(tree, IF parts[1] = <<>> THEN <<>> ELSE SplitAll(parts[1]))
        name == IF Len(parts[3]) = 1 THEN parts[3][1] ELSE ""
    IN  IF dir = NoTree \/ name \notin DOMAIN TreeEntries(dir) THEN "none"
        ELSE TreeEntries(dir)[name].kind

\* _file_list_<provider> and _dir_list_<provider> on the tree of the environment:
\* whether the call raises, and the paths the repo contributes.  GitPython's
\* `tree / root` hands back the blob when root names a file, and a blob has no
\* traverse(); pygit2 and dulwich test for a tree.
ListRepo(prov, tree, root, mountpoint, kind) ==
    LET sub == WalkTree(tree, IF root = <<>> THEN <<>> ELSE SplitAll(root))
    IN  IF tree = NoTree THEN [raised |-> FALSE, paths |-> {}]
        ELSE IF prov = "gitpython" /\ root # <<>> /\ JoinKind(tree, root) = "blob"
        THEN [raised |-> TRUE, paths |-> {}]
        ELSE IF sub = NoTree THEN [raised |-> FALSE, paths |-> {}]
        ELSE [raised |-> FALSE,
              paths |-> {PathJoin(mountpoint,
                                  IF root # <<>> THEN RelPath(q, root) ELSE q) :
                           q \in Traverse(sub, root, kind)}]

\* _get_file_list (kind "blob") and _get_dir_list (kind "tree") after init()
GetList(prov, R, recs, envlist, o, en, saltenv, kind) ==
    LET short == IF saltenv = BaseEnv THEN o.gitfs_base ELSE saltenv
        one(i) == ListRepo(prov,
                           GetTree(prov, R[recs[i].hash], short, envlist, o, en),
                           ParamOr(recs[i].root, o.gitfs_root),
                           ParamOr(recs[i].mountpoint, StripProto(o.gitfs_mountpoint)),
                           kind)
    IN  [raised |-> \E i \in DOMAIN recs : one(i).raised,
         ret |-> Sorted(UNION {one(i).paths : i \in DOMAIN recs})]

\* file_list (form "files") or dir_list (form "dirs") of a load that has
\* 'saltenv' or 'env'; _get_file_list and _get_dir_list store the base branch
\* in load['saltenv'] when it is 'base'
ListCall(given, form) ==
    /\ LET load == MoveEnv(given)
           saltenv == CHOOSE x \in load.saltenv : TRUE
           i == InitOp(repo, remoteMap, opts)
           envlist == EnvsOp(provider, i.repo, i.map, envCache, upstream, opts,
                             FALSE).ret
           l == GetList(provider, i.repo, i.recs, envlist, opts, enum, saltenv,
                        IF form = "files" THEN "blob" ELSE "tree")
       IN  /\ repo' = i.repo
           /\ remoteMap' = i.map
           /\ hist' = [ForgetCalls(hist) EXCEPT
                         !.list = [valid |-> TRUE, form |-> form, env |-> saltenv,
                                   raised |-> l.raised,
                                   ret |-> IF l.raised THEN <<>> ELSE l.ret,
                                   given |-> {given},
                                   load |-> {IF saltenv = BaseEnv
                                             THEN [load EXCEPT
                                                     !.saltenv = {opts.gitfs_base}]
                                             ELSE load}]]
    /\ UNCHANGED <<confVars, upstream, envCache, cache, workerVars, upd, event,
                   budget>>

----------------------------------------------------------------------------
(* envs() and init() called by the master *)

EnvsCall(ignore_cache) ==
    /\ LET e == EnvsOp(provider, repo, remoteMap, envCache, upstream, opts,
                       ignore_cache)
       IN  /\ repo' = e.repo
           /\ remoteMap' = e.map
           /\ hist' = [hist EXCEPT !.find = NoFindObs,
                                    !.init = NoInitObs, !.list = NoListObs,
                                    !.api = NoApiObs,
                                    !.envs = [valid |-> TRUE,
                                             ignore |-> ignore_cache,
                                             ret |-> e.ret,
                                             file |-> envCache]]
    /\ UNCHANGED <<confVars, upstream, envCache, cache, workerVars, upd, event,
                   budget>>

InitCall ==
    /\ LET i == InitOp(repo, remoteMap, opts)
       IN  /\ repo' = i.repo
           /\ remoteMap' = i.map
           /\ hist' = [ForgetCalls(hist) EXCEPT
                         !.init = [valid |-> TRUE, recs |-> i.recs,
                                   new |-> i.new, before |-> remoteMap]]
    /\ UNCHANGED <<confVars, upstream, envCache, cache, workerVars, upd, event,
                   budget>>

----------------------------------------------------------------------------
(* The environment: the remotes, the configuration and the operator *)

\* the bounds on what the environment does in one behaviour
MaxUpstreamOps == 1
MaxConfigOps == 1
MaxDamage == 1

Configured(u) == u \in Range(opts.gitfs_remotes)

\* the environment name a ref stands for: the sanitized short name, with the base
\* branch under the name 'base'
EnvOfRef(r, o) ==
    LET n == Replace(Drop(r, 4))
    IN  IF IsBranchRef(r) /\ n = o.gitfs_base THEN BaseEnv ELSE n

\* a branch or tag is created on the remote
UpstreamCreate(u, q) ==
    /\ upd.pc = "idle"
    /\ budget.ups > 0
    /\ q \in RefUniverse(u)
    /\ q[1] \notin RefNames(upstream[u])
    /\ upstream' = [upstream EXCEPT ![u] = @ \cup {q}]
    /\ budget' = [budget EXCEPT !.ups = @ - 1]
    /\ hist' = Forget(hist)
    /\ UNCHANGED <<confVars, repo, remoteMap, envCache, cache, workerVars, upd,
                   event>>

\* a branch or tag is deleted on the remote
UpstreamDelete(u, r) ==
    /\ upd.pc = "idle"
    /\ budget.ups > 0
    /\ r \in RefNames(upstream[u])
    /\ upstream' = [upstream EXCEPT ![u] = {q \in @ : q[1] # r}]
    /\ budget' = [budget EXCEPT !.ups = @ - 1]
    /\ hist' = [Forget(hist) EXCEPT
                  !.del = IF /\ hist.synced
                             /\ Configured(u)
                             /\ IsBranchRef(r)
                             /\ EnvIsExposed(opts, EnvOfRef(r, opts))
                          THEN [valid |-> TRUE, uri |-> u, ref |-> r]
                          ELSE NoDel]
    /\ UNCHANGED <<confVars, repo, remoteMap, envCache, cache, workerVars, upd,
                   event>>

\* a branch or tag is moved to the other commit on the remote
UpstreamMove(u, r) ==
    /\ upd.pc = "idle"
    /\ budget.ups > 0
    /\ r \in RefNames(upstream[u])
    /\ LET c == CHOOSE x \in Commits : x # RefCommit(upstream[u], r)
       IN  upstream' = [upstream EXCEPT
                          ![u] = {q \in @ : q[1] # r} \cup {<<r, c>>}]
    /\ budget' = [budget EXCEPT !.ups = @ - 1]
    /\ hist' = Forget(hist)
    /\ UNCHANGED <<confVars, repo, remoteMap, envCache, cache, workerVars, upd,
                   event>>

\* the remotes without u, in their order
RECURSIVE Without(_, _)
Without(l, u) ==
    IF l = <<>> THEN <<>>
    ELSE IF Head(l) = u THEN Without(Tail(l), u)
    ELSE <<Head(l)>> \o Without(Tail(l), u)

\* the operator takes a remote out of gitfs_remotes
ConfigRemove(u) ==
    /\ Quiet
    /\ budget.cfg > 0
    /\ Configured(u)
    /\ opts' = [opts EXCEPT !.gitfs_remotes = Without(@, u)]
    /\ budget' = [budget EXCEPT !.cfg = @ - 1]
    /\ hist' = [Forget(hist) EXCEPT !.dropped = @ \cup {Md5(u)}]
    /\ UNCHANGED <<provider, enum, reqPath, dictOrder, upstream, repo, remoteMap,
                   envCache, cache, workerVars, upd, event>>

\* the operator puts a remote back into gitfs_remotes
ConfigAdd(u) ==
    /\ Quiet
    /\ ~Configured(u)
    /\ opts' = [opts EXCEPT !.gitfs_remotes = Append(@, u)]
    /\ hist' = [Forget(hist) EXCEPT !.dropped = @ \ {Md5(u)}]
    /\ UNCHANGED <<provider, enum, reqPath, dictOrder, upstream, repo, remoteMap,
                   envCache, cache, workerVars, upd, event, budget>>

\* the operator sets gitfs_env_whitelist and gitfs_env_blacklist
ConfigFilter(whitelist, blacklist) ==
    /\ Quiet
    /\ budget.cfg > 0
    /\ <<whitelist, blacklist>> # <<opts.gitfs_env_whitelist, opts.gitfs_env_blacklist>>
    /\ opts' = [opts EXCEPT !.gitfs_env_whitelist = whitelist,
                            !.gitfs_env_blacklist = blacklist]
    /\ budget' = [budget EXCEPT !.cfg = @ - 1]
    /\ hist' = Forget(hist)
    /\ UNCHANGED <<provider, enum, reqPath, dictOrder, upstream, repo, remoteMap,
                   envCache, cache, workerVars, upd, event>>

\* a working dir stops being a git repository: it loses its git metadata and
\* keeps other content
DamageInvalid(h) ==
    /\ Quiet
    /\ budget.dmg > 0
    /\ repo[h].kind = "repo"
    /\ repo' = [repo EXCEPT ![h] = [NoDir EXCEPT !.kind = "invalid"]]
    /\ budget' = [budget EXCEPT !.dmg = @ - 1]
    /\ hist' = Forget(hist)
    /\ UNCHANGED <<confVars, upstream, remoteMap, envCache, cache, workerVars,
                   upd, event>>

\* the object store of a working dir is damaged: the fetch will fail
DamageCorrupt(h) ==
    /\ Quiet
    /\ budget.dmg > 0
    /\ repo[h].kind = "repo"
    /\ ~repo[h].corrupt
    /\ repo' = [repo EXCEPT ![h].corrupt = TRUE]
    /\ budget' = [budget EXCEPT !.dmg = @ - 1]
    /\ hist' = Forget(hist)
    /\ UNCHANGED <<confVars, upstream, remoteMap, envCache, cache, workerVars,
                   upd, event>>

----------------------------------------------------------------------------
(* Specifications *)

Enums == {"heads_first", "tags_first"}

\* the whitelist and blacklist pairs, and the refs of remote u1, a behaviour starts from
ListPairs == {<<{}, {}>>, <<{BaseEnv, F_x}, {}>>, <<{}, {BaseEnv, F_x}>>}

UpstreamChoices ==
    {RefUniverse("u1"),
     {q \in RefUniverse("u1") : IsBranchRef(q[1])},
     {q \in RefUniverse("u1") : q[1] # Tags(Master)}}

\* __opts__ with the defaults of everything the model does not vary
Opts(remotes, whitelist, blacklist) ==
    [gitfs_remotes |-> remotes, gitfs_base |-> Master,
     gitfs_env_whitelist |-> whitelist, gitfs_env_blacklist |-> blacklist,
     gitfs_mountpoint |-> <<>>, gitfs_root |-> <<>>, fileserver_events |-> TRUE,
     remote_params |-> [u \in URIs |-> NoParams]]

\* a master that has not run yet: an empty cachedir
FreshMaster ==
    /\ repo = [h \in Hashes |-> NoDir]
    /\ remoteMap = NoFile
    /\ envCache = NoFile
    /\ cache = NoCache
    /\ pc = [p \in Procs |-> "idle"]
    /\ call = [p \in Procs |-> NoCall]
    /\ upd = IdleUpd
    /\ event = NoEvent
    /\ hist = NoHist

\* the master lists the environments: update() and envs() follow each other, and
\* the remotes change in between
Init ==
    /\ provider \in Providers
    /\ enum = "heads_first"
    /\ opts \in {Opts(<<"u1", "u2">>, l[1], l[2]) : l \in ListPairs}
    /\ upstream \in {[u \in URIs |-> IF u = "u1" THEN U ELSE RefUniverse(u)] :
                       U \in UpstreamChoices}
    /\ budget = [ups |-> MaxUpstreamOps, cfg |-> 0, dmg |-> 0]
    /\ reqPath = CallPath
    /\ dictOrder = <<"u1", "u2">>
    /\ FreshMaster

Next ==
    \/ UpdateStart
    \/ UpdateLock
    \/ UpdateFetch
    \/ UpdateUnlock
    \/ UpdateFinish
    \/ Quiet /\ \E b \in BOOLEAN : EnvsCall(b)
    \/ \E u \in URIs : \E q \in RefUniverse(u) : UpstreamCreate(u, q)
    \/ \E u \in URIs : \E r \in RefNames(upstream[u]) : UpstreamDelete(u, r)
    \/ \E u \in URIs : \E r \in RefNames(upstream[u]) : UpstreamMove(u, r)

Spec == Init /\ [][Next]_vars

\* one worker serves files: update() and find_file calls follow each other, and
\* the remotes change in between
InitFind ==
    /\ provider \in Providers
    /\ enum \in Enums
    /\ provider # "pygit2" => enum = "heads_first"
    /\ opts \in {Opts(<<"u1">>, l[1], l[2]) : l \in ListPairs}
    /\ upstream \in {[u \in URIs |-> IF u = "u1" THEN U ELSE {}] :
                       U \in UpstreamChoices \ {RefUniverse("u1")}}
    /\ budget = [ups |-> MaxUpstreamOps, cfg |-> 0, dmg |-> 0]
    /\ reqPath = CallPath
    /\ dictOrder = <<"u1", "u2">>
    /\ FreshMaster

NextFind ==
    \/ AllIdle /\ UpdateStart
    \/ UpdateLock
    \/ UpdateFetch
    \/ UpdateUnlock
    \/ UpdateFinish
    \/ upd.pc = "idle" /\ \E env \in CallEnvs : FFBegin("w1", env)
    \/ FindFileStep("w1")
    \/ AllIdle /\ \E q \in RefUniverse("u1") : UpstreamCreate("u1", q)
    \/ AllIdle /\ \E r \in RefNames(upstream["u1"]) :
                    IsBranchRef(r) /\ UpstreamDelete("u1", r)
    \/ AllIdle /\ \E r \in RefNames(upstream["u1"]) :
                    IsBranchRef(r) /\ UpstreamMove("u1", r)

SpecFind == InitFind /\ [][NextFind]_vars

\* two workers serve the same file of environment f_x while the master runs
\* update() and the branch moves on the remote
InitFF ==
    /\ provider = "gitpython"
    /\ enum = "heads_first"
    /\ opts = Opts(<<"u1">>, {}, {})
    /\ upstream = [u \in URIs |-> IF u = "u1" THEN {<<Heads(Fx), ShaA>>} ELSE {}]
    /\ budget = [ups |-> MaxUpstreamOps, cfg |-> 0, dmg |-> 0]
    /\ reqPath = CallPath
    /\ dictOrder = <<"u1", "u2">>
    /\ FreshMaster

NextFF ==
    \/ UpdateStart
    \/ UpdateLock
    \/ UpdateFetch
    \/ UpdateUnlock
    \/ UpdateFinish
    \/ \E p \in Procs : FFBegin(p, F_x)
    \/ \E p \in Procs : FindFileStep(p)
    \/ UpstreamMove("u1", Heads(Fx))

SpecFF == InitFF /\ [][NextFF]_vars

\* the operator changes gitfs_remotes and the working dirs get damaged, while the
\* master calls init() and update() and a worker serves files
InitRepos ==
    /\ provider \in Providers
    /\ enum = "heads_first"
    /\ opts = Opts(<<"u1", "u2">>, {}, {})
    /\ upstream = [u \in URIs |->
                     IF u = "u1" THEN {<<Heads(Fx), ShaA>>} ELSE RefUniverse(u)]
    /\ budget = [ups |-> MaxUpstreamOps, cfg |-> MaxConfigOps, dmg |-> MaxDamage]
    /\ reqPath = CallPath
    /\ dictOrder = <<"u1", "u2">>
    /\ FreshMaster

NextRepos ==
    \/ AllIdle /\ UpdateStart
    \/ UpdateLock
    \/ UpdateFetch
    \/ UpdateUnlock
    \/ UpdateFinish
    \/ Quiet /\ InitCall
    \/ upd.pc = "idle" /\ FFBegin("w1", F_x)
    \/ FindFileStep("w1")
    \/ \E u \in URIs : ConfigRemove(u)
    \/ \E u \in URIs : ConfigAdd(u)
    \/ \E h \in Hashes : DamageInvalid(h)
    \/ \E h \in Hashes : DamageCorrupt(h)
    \/ AllIdle /\ UpstreamDelete("u2", Heads(Old))

SpecRepos == InitRepos /\ [][NextRepos]_vars

\* remotes with a mountpoint and a root: one worker asks for a path under the
\* mountpoint, beside it, or for an absolute path, and two remotes hold the path
Srv == <<"srv">>
SubDir == <<"d">>

ParamChoices ==
    {NoParams,
     [mountpoint |-> {Srv}, root |-> {}],
     [mountpoint |-> {<<"salt:", Sep, Sep>> \o Srv}, root |-> {SubDir}],
     [mountpoint |-> {}, root |-> {SubDir}]}

PathChoices ==
    {CallPath, Srv \o <<Sep>> \o CallPath, SubDir \o <<Sep>> \o CallPath,
     <<Sep>> \o CallPath}

RemoteLists == {<<"u1">>, <<"u1", "u2">>, <<"u2", "u1">>}

InitServe ==
    /\ provider \in Providers
    /\ enum = "heads_first"
    /\ opts \in {[Opts(l, {}, {}) EXCEPT !.remote_params["u1"] = pr] :
                   l \in RemoteLists, pr \in ParamChoices}
    /\ upstream = [u \in URIs |-> IF u = "u1" THEN {<<Heads(Fx), ShaA>>}
                                   ELSE {<<Heads(Fx), ShaB>>}]
    /\ budget = [ups |-> 0, cfg |-> 0, dmg |-> 0]
    /\ reqPath \in PathChoices
    /\ dictOrder \in {<<"u1", "u2">>, <<"u2", "u1">>}
    /\ FreshMaster

NextServe ==
    \/ AllIdle /\ UpdateStart
    \/ UpdateLock
    \/ UpdateFetch
    \/ UpdateUnlock
    \/ UpdateFinish
    \/ upd.pc = "idle" /\ FFBegin("w1", F_x)
    \/ upd.pc = "idle" /\ FFAbsolute("w1", F_x)
    \/ FindFileStep("w1")

SpecServe == InitServe /\ [][NextServe]_vars

\* the files and dirs of an environment are listed for remotes with a
\* mountpoint and a root: a directory, a file, or a name the tree does not have
Missing == <<"c">>

ListParams ==
    {NoParams,
     [mountpoint |-> {Srv}, root |-> {SubDir}],
     [mountpoint |-> {}, root |-> {CallPath}],
     [mountpoint |-> {Srv}, root |-> {Missing}]}

InitList ==
    /\ provider \in Providers
    /\ enum = "heads_first"
    /\ opts \in {[Opts(l, {}, {}) EXCEPT !.remote_params["u1"] = pr] :
                   l \in RemoteLists, pr \in ListParams}
    /\ upstream = [u \in URIs |-> IF u = "u1" THEN {<<Heads(Fx), ShaA>>}
                                   ELSE {<<Heads(Fx), ShaB>>}]
    /\ budget = [ups |-> 0, cfg |-> 0, dmg |-> 0]
    /\ reqPath = CallPath
    /\ dictOrder = <<"u1", "u2">>
    /\ FreshMaster

NextList ==
    \/ UpdateStart
    \/ UpdateLock
    \/ UpdateFetch
    \/ UpdateUnlock
    \/ UpdateFinish
    \/ Quiet /\ \E load \in ListLoads(F_x) : \E form \in {"files", "dirs"} :
                    ListCall(load, form)

SpecList == InitList /\ [][NextList]_vars

\* the operator adds and removes remotes between init() and update() calls
InitMap ==
    /\ provider \in Providers
    /\ enum = "heads_first"
    /\ opts \in {Opts(l, {}, {}) : l \in RemoteLists}
    /\ upstream = [u \in URIs |->
                     IF u = "u1" THEN {<<Heads(Fx), ShaA>>} ELSE RefUniverse(u)]
    /\ budget = [ups |-> 0, cfg |-> MaxConfigOps, dmg |-> 0]
    /\ reqPath = CallPath
    /\ dictOrder \in {<<"u1", "u2">>, <<"u2", "u1">>}
    /\ FreshMaster

NextMap ==
    \/ UpdateStart
    \/ UpdateLock
    \/ UpdateFetch
    \/ UpdateUnlock
    \/ UpdateFinish
    \/ Quiet /\ InitCall
    \/ \E u \in URIs : ConfigRemove(u)
    \/ \E u \in URIs : ConfigAdd(u)

SpecMap == InitMap /\ [][NextMap]_vars

\* update() with and without fileserver_events, while the remotes change and
\* the operator takes a remote out
InitEvent ==
    /\ provider \in Providers
    /\ enum = "heads_first"
    /\ opts \in {[Opts(<<"u1", "u2">>, {}, {}) EXCEPT !.fileserver_events = b] :
                   b \in BOOLEAN}
    /\ upstream \in {[u \in URIs |-> IF u = "u1" THEN U ELSE RefUniverse(u)] :
                       U \in UpstreamChoices}
    /\ budget = [ups |-> MaxUpstreamOps, cfg |-> MaxConfigOps, dmg |-> 0]
    /\ reqPath = CallPath
    /\ dictOrder = <<"u1", "u2">>
    /\ FreshMaster

NextEvent ==
    \/ UpdateStart
    \/ UpdateLock
    \/ UpdateFetch
    \/ UpdateUnlock
    \/ UpdateFinish
    \/ \E q \in RefUniverse("u1") : UpstreamCreate("u1", q)
    \/ \E r \in RefNames(upstream["u1"]) : UpstreamDelete("u1", r)
    \/ \E r \in RefNames(upstream["u1"]) : UpstreamMove("u1", r)
    \/ ConfigRemove("u2")

SpecEvent == InitEvent /\ [][NextEvent]_vars

\* a tag whose name has a slash
V1 == <<"v", "/", "1">>

TagChoices ==
    {{<<Heads(Master), ShaA>>, <<Tags(V1), ShaB>>},
     {<<Heads(Fx), ShaA>>, <<Tags(V1), ShaB>>},
     {<<Heads(Fx), ShaA>>, <<Tags(F_x), ShaB>>}}

\* the master lists the environments of one remote that has tags
InitTags ==
    /\ provider \in Providers
    /\ enum = "heads_first"
    /\ opts \in {Opts(<<"u1">>, l[1], l[2]) : l \in ListPairs}
    /\ upstream \in {[u \in URIs |-> IF u = "u1" THEN U ELSE {}] : U \in TagChoices}
    /\ budget = [ups |-> MaxUpstreamOps, cfg |-> 0, dmg |-> 0]
    /\ reqPath = CallPath
    /\ dictOrder = <<"u1", "u2">>
    /\ FreshMaster

NextTags ==
    \/ UpdateStart
    \/ UpdateLock
    \/ UpdateFetch
    \/ UpdateUnlock
    \/ UpdateFinish
    \/ Quiet /\ EnvsCall(TRUE)
    \/ \E r \in RefNames(upstream["u1"]) : UpstreamDelete("u1", r)

SpecTags == InitTags /\ [][NextTags]_vars

\* the operator changes the whitelist and the blacklist between update() and
\* find_file calls
InitExpose ==
    /\ provider \in Providers
    /\ enum = "heads_first"
    /\ opts \in {Opts(<<"u1">>, l[1], l[2]) : l \in ListPairs}
    /\ upstream = [u \in URIs |->
                     IF u = "u1" THEN {<<Heads(Master), ShaA>>, <<Heads(Fx), ShaA>>}
                     ELSE {}]
    /\ budget = [ups |-> 0, cfg |-> MaxConfigOps, dmg |-> 0]
    /\ reqPath = CallPath
    /\ dictOrder = <<"u1", "u2">>
    /\ FreshMaster

NextExpose ==
    \/ AllIdle /\ UpdateStart
    \/ UpdateLock
    \/ UpdateFetch
    \/ UpdateUnlock
    \/ UpdateFinish
    \/ upd.pc = "idle" /\ \E env \in CallEnvs : FFBegin("w1", env)
    \/ FindFileStep("w1")
    \/ \E l \in ListPairs : ConfigFilter(l[1], l[2])

SpecExpose == InitExpose /\ [][NextExpose]_vars

\* one worker materializes the file of environment f_x while another asks for
\* its hash and its content, and the branch moves on the remote
InitHash ==
    /\ provider = "gitpython"
    /\ enum = "heads_first"
    /\ opts = Opts(<<"u1">>, {}, {})
    /\ upstream = [u \in URIs |-> IF u = "u1" THEN {<<Heads(Fx), ShaA>>} ELSE {}]
    /\ budget = [ups |-> MaxUpstreamOps, cfg |-> 0, dmg |-> 0]
    /\ reqPath = CallPath
    /\ dictOrder = <<"u1", "u2">>
    /\ FreshMaster

NextHash ==
    \/ AllIdle /\ UpdateStart
    \/ UpdateLock
    \/ UpdateFetch
    \/ UpdateUnlock
    \/ UpdateFinish
    \/ upd.pc = "idle" /\ FFBegin("w1", F_x)
    \/ FindFileStep("w1")
    \/ \E load \in LoadChoices(reqPath, F_x) : \E fnd \in Fnds(F_x) :
            FHBegin("w2", load, fnd)
    \/ FHWrite("w2")
    \/ \E load \in LoadChoices(reqPath, F_x) : \E fnd \in Fnds(F_x) :
            ServeFile("w2", load, fnd)
    \/ AllIdle /\ UpstreamMove("u1", Heads(Fx))

SpecHash == InitHash /\ [][NextHash]_vars

----------------------------------------------------------------------------
(* What the properties speak about *)

\* where the working dir keeps a branch of the remote
LocalBranch(n) == IF provider = "dulwich" THEN Heads(n) ELSE Remotes(n)

\* init() returns a record for the remote
Recorded(u) == Configured(u) /\ repo[Md5(u)].kind = "repo"

\* the remote has branch n and the working dir has fetched its tip
HasBranch(u, n) ==
    /\ Recorded(u)
    /\ Heads(n) \in RefNames(upstream[u])
    /\ LocalBranch(n) \in RefNames(repo[Md5(u)].refs)
    /\ RefCommit(repo[Md5(u)].refs, LocalBranch(n)) = RefCommit(upstream[u], Heads(n))

\* the working dir has a tag named n
HasTag(u, n) == Recorded(u) /\ Tags(n) \in RefNames(repo[Md5(u)].refs)

\* the content of CallPath at the tip of branch n of remote u
BranchContent(u, n) ==
    BlobData(BlobAt(CommitTree(RefCommit(upstream[u], Heads(n))), reqPath))

\* the names the branches and tags the remotes have now stand for, and those of
\* the tags the working dirs hold
LiveNames ==
    UNION {{EnvOfRef(q[1], opts) : q \in upstream[u]}
           \cup {EnvOfRef(r, opts) : r \in {x \in RefNames(repo[Md5(u)].refs) :
                                              x[3] = "tags"}} :
           u \in {v \in URIs : Configured(v)}}

\* the names the stale remote-tracking branches of the working dirs stand for
StaleNames ==
    UNION {{EnvOfRef(Heads(Drop(r, Len(Remotes(<<>>)))), opts) :
              r \in StaleRefs(repo[Md5(u)], upstream[u])} :
           u \in {v \in URIs : Configured(v)}}

\* the mountpoint and the root in force for remote u
MountOf(u) == ParamOr(RepoConf(opts, u).mountpoint, StripProto(opts.gitfs_mountpoint))
RootOf(u) == ParamOr(RepoConf(opts, u).root, opts.gitfs_root)

\* the tree of branch n of remote u
BranchTree(u, n) == CommitTree(RefCommit(upstream[u], Heads(n)))

\* the blob remote u holds for reqPath on its branch n, or NoBlob
ServedBlob(u, n) ==
    IF IsAbs(reqPath) \/ MountSkips(reqPath, MountOf(u)) THEN NoBlob
    ELSE BlobAt(BranchTree(u, n), RepoPath(reqPath, MountOf(u), RootOf(u)))

\* a find_file call for (e, CallPath) is in progress
InProgress(e) == \E p \in Procs : pc[p] # "idle" /\ call[p].env = e

\* the paths of the objects of the kind that lie below the root of remote u in
\* the tree of its branch n, relative to the root and under the mountpoint
ListedPaths(u, n, kind) ==
    LET root == RootOf(u)
        below == {q \in Traverse(BranchTree(u, n), <<>>, kind) :
                    root = <<>> \/ StartsWith(q, root \o <<Sep>>)}
    IN  {PathJoin(MountOf(u), IF root = <<>> THEN q ELSE Drop(q, Len(root) + 1)) :
           q \in below}

----------------------------------------------------------------------------
(* Properties *)

\* C1 (cache coherence): whenever no find_file call is in progress for
\* (env, path) and the blob_sha1 marker exists, refs/<env>/<path> holds exactly
\* the content of the blob the marker names.
C1_CacheCoherence ==
    \A e \in CacheEnvs :
        ~InProgress(e) /\ cache.ent[e].marker.exists
            => /\ cache.ent[e].dest.exists
               /\ cache.ent[e].dest.data = BlobData(cache.ent[e].marker.data)

\* C2 (mutual exclusion): at most one worker at a time is between creating
\* <path>.lk and removing it for the same (env, path).
C2_MutualExclusion ==
    \A p \in Procs : \A q \in Procs \ {p} :
        pc[p] \in SlowPcs /\ pc[q] \in SlowPcs => call[p].env # call[q].env

\* C3 (base aliasing in find_file): with gitfs_base = B, a configured remote whose
\* branch B has been fetched and holds the file, and 'base' exposed,
\* find_file(p, 'base') returns the non-empty {rel, path} of refs/B/p, and that
\* file holds the blob at p on the tip of branch B.
C3_BaseAliasFindFile ==
    /\ hist.find.valid
    /\ hist.find.arg = BaseEnv
    /\ EnvIsExposed(opts, BaseEnv)
    /\ \E u \in URIs : HasBranch(u, opts.gitfs_base)
    => /\ hist.find.ret = Found(opts.gitfs_base, CallPath)
       /\ \E u \in URIs :
            /\ HasBranch(u, opts.gitfs_base)
            /\ cache.ent[opts.gitfs_base].dest.data
                 = BranchContent(u, opts.gitfs_base)

\* C4 (idempotence of find_file): a find_file call that follows a call with the
\* same arguments, with nothing happening in between, returns the same
\* {rel, path} and writes nothing.
C4_Idempotent ==
    hist.find.second => hist.find.same /\ ~hist.find.wrote

\* C4 witness: a second call that found the file (on the fast path).
C4_Witness ==
    /\ hist.find.second
    /\ hist.find.same
    /\ ~hist.find.wrote
    /\ hist.find.ret = Found(F_x, CallPath)
    /\ cache.ent[F_x].marker.exists

\* C5 (branch before tag): when a fetched branch and a tag of the same remote
\* have the sanitized name f_x, a find_file(p, f_x) that finds the file
\* materializes the blob of the branch tip.
C5_BranchBeforeTag ==
    /\ hist.find.valid
    /\ hist.find.arg = F_x
    /\ hist.find.ret # NotFound
    /\ HasBranch("u1", Fx)
    /\ HasTag("u1", F_x)
    => cache.ent[F_x].dest.data = BranchContent("u1", Fx)

\* C6 (env exposure): once update() has completed, every name envs() returns
\* passes the whitelist/blacklist and is not a name that only a stale
\* remote-tracking branch stands for.
C6_EnvExposure ==
    hist.envs.valid /\ hist.synced
    => \A n \in Range(hist.envs.ret) :
          /\ EnvIsExposed(opts, n)
          /\ ~(n \in StaleNames /\ n \notin LiveNames)

C8_StalePruned ==
    /\ hist.synced
    /\ hist.del.valid
    /\ hist.envs.valid
    /\ ~hist.envs.ignore
    /\ EnvOfRef(hist.del.ref, opts) \notin LiveNames
    => EnvOfRef(hist.del.ref, opts) \notin Range(hist.envs.ret)

\* C9 (purge correctness): after a remote is taken out of gitfs_remotes and
\* update() has completed, its cache dir is gone, the reserved entries that
\* were there are still there, and update() removed no cache dir of a remote
\* that is still configured.
C9_PurgeCorrect ==
    hist.synced /\ hist.dropped # {}
    => /\ \A h \in hist.dropped : repo[h].kind = "absent"
       /\ Reserved \cap hist.before
            \subseteq BaseListing(repo, remoteMap, envCache, cache)
       /\ \A u \in URIs :
            Configured(u) => Md5(u) \notin hist.removed \cup hist.rmrf

\* C10 (cache dirs of configured remotes stay): no update() removes the cache
\* dir of a remote whose URI is configured, a dir that holds no valid repo
\* included.
C10_ConfiguredDirKept ==
    \A u \in URIs : Configured(u) => Md5(u) \notin hist.removed \cup hist.rmrf

\* C11 (mountpoint): for a single remote with mountpoint m and root r whose
\* branch f/x is fetched, find_file(m/q, f_x) returns refs/f_x/m/q holding the
\* blob at r/q of the branch tree, and find_file of a path that does not start
\* with m/ returns the empty result.
C11_Mountpoint ==
    \A m \in {Srv} : \A r \in {<<>>, SubDir} :
        /\ hist.find.valid
        /\ hist.find.arg = F_x
        /\ opts.gitfs_remotes = <<"u1">>
        /\ MountOf("u1") = m
        /\ RootOf("u1") = r
        /\ HasBranch("u1", Fx)
        => /\ \A q \in {CallPath, SubDir \o <<Sep>> \o CallPath} :
                LET want == BlobAt(BranchTree("u1", Fx),
                                   IF r = <<>> THEN q ELSE r \o <<Sep>> \o q)
                IN  reqPath = m \o <<Sep>> \o q /\ want # NoBlob
                    => /\ hist.find.ret = Found(F_x, reqPath)
                       /\ cache.ent[F_x].dest.data = BlobData(want)
           /\ ~StartsWith(reqPath, m \o <<Sep>>) => hist.find.ret = NotFound

\* C11 witness: with mountpoint srv and root d, srv/a.txt was served from
\* d/a.txt of the branch.
C11_Witness ==
    /\ hist.find.valid
    /\ opts.gitfs_remotes = <<"u1">>
    /\ MountOf("u1") = Srv
    /\ RootOf("u1") = SubDir
    /\ HasBranch("u1", Fx)
    /\ reqPath = Srv \o <<Sep>> \o CallPath
    /\ hist.find.ret = Found(F_x, reqPath)
    /\ cache.ent[F_x].dest.data = BlobData("b3")

\* C12 (first matching repo wins): when every configured remote has its branch
\* f/x fetched, find_file(p, f_x) serves the blob of the first remote, in the
\* order of gitfs_remotes, that holds the path, and returns the empty result
\* when none does.
C12_FirstRepoWins ==
    /\ hist.find.valid
    /\ hist.find.arg = F_x
    /\ \A u \in URIs : Configured(u) => HasBranch(u, Fx)
    => LET hits == {i \in DOMAIN opts.gitfs_remotes :
                      ServedBlob(opts.gitfs_remotes[i], Fx) # NoBlob}
           first == CHOOSE i \in hits : \A j \in hits : i <= j
       IN  IF hits = {} THEN hist.find.ret = NotFound
           ELSE /\ hist.find.ret = Found(F_x, reqPath)
                /\ cache.ent[F_x].dest.data
                     = BlobData(ServedBlob(opts.gitfs_remotes[first], Fx))

\* C13 (update.lk lifecycle): while update() fetches a repo, update.lk in its
\* working dir holds the updater's pid, and once update() has returned no
\* working dir holds an update.lk, whatever the outcome of the fetches.
C13_UpdateLk ==
    /\ upd.pc = "fetch" => repo[upd.recs[upd.i].hash].lk = UpdPid
    /\ hist.synced /\ upd.pc = "idle"
       => \A h \in Hashes : repo[h].kind # "absent" => repo[h].lk = 0

\* C14 (corruption recovery): when update() has completed, every working dir
\* whose fetch failed on a damaged object store was removed by that update(),
\* and no working dir of a configured remote is left damaged.
C14_CorruptionRecovery ==
    hist.synced
    => /\ \A h \in hist.corrupt : h \in hist.rmrf
       /\ \A u \in URIs : Configured(u) => ~repo[Md5(u)].corrupt

\* C15 (error policy): no serve_file or file_hash call ends by an exception, and
\* each returns a dict with its keys: {data, dest} resp. {hash_type, hsum}.
C15_ErrorPolicy ==
    hist.api.valid
    => /\ ~hist.api.raised
       /\ hist.api.shape = "dict"
       /\ hist.api.op = "serve_file" => {"data", "dest"} \subseteq hist.api.keys
       /\ hist.api.op = "file_hash" => {"hash_type", "hsum"} \subseteq hist.api.keys

\* C17 (content-hash sidecar): whenever no find_file or file_hash call is in
\* progress for (env, path), an existing sidecar hash/<env>/<path>.hash.<algo>
\* holds the digest of the content of refs/<env>/<path>.
C17_SidecarConsistent ==
    \A e \in CacheEnvs :
        ~InProgress(e) /\ cache.ent[e].hsum.exists
        => /\ cache.ent[e].dest.exists
           /\ cache.ent[e].hsum.data = HashSum(cache.ent[e].dest.data)

\* C16 (non-exposed names never resolve): when the name find_file hands to tree
\* resolution fails the whitelist/blacklist, find_file returns the empty result,
\* whether the env list comes from envs.p or not.
C16_NonExposedAbsent ==
    hist.find.valid
    => LET short == IF hist.find.arg = BaseEnv THEN opts.gitfs_base
                    ELSE hist.find.arg
       IN  ~EnvIsExposed(opts, short) => hist.find.ret = NotFound

\* C18 (envs() is sorted and duplicate-free): the list envs() returns, from the
\* cache file or from the repos, is in strictly ascending order, so no name
\* occurs twice, also when several repos or a branch and a tag give the same name.
C18_EnvsSorted ==
    hist.envs.valid
    => \A i, j \in DOMAIN hist.envs.ret :
          i < j => LexLess(hist.envs.ret[i], hist.envs.ret[j])

\* envs() has returned names of both repos, f_x among them while the first repo
\* holds both the branch f/x and the tag f_x
C18_Witness ==
    /\ hist.envs.valid
    /\ {F_x, Old} \subseteq Range(hist.envs.ret)
    /\ Tags(F_x) \in RefNames(repo[Md5("u1")].refs)
    /\ {Heads(Fx), Remotes(Fx)} \cap RefNames(repo[Md5("u1")].refs) # {}

\* the name the specification derives from a ref: the refs/remotes/origin/,
\* refs/heads/ or refs/tags/ prefix stripped and every '/' replaced by '_'
SanitizedName(r) ==
    Replace(Drop(r, IF StartsWith(r, Remotes(<<>>)) THEN Len(Remotes(<<>>))
                    ELSE Len(Heads(<<>>))))

\* C19 (environment names are sanitized): every name envs(ignore_cache=True)
\* returns is 'base' or the sanitized name of a ref of a configured repo, branch
\* or tag alike, and contains no '/'.
C19_EnvNamesSanitized ==
    hist.envs.valid /\ hist.envs.ignore
    => \A n \in Range(hist.envs.ret) :
          /\ Sep \notin Range(n)
          /\ \/ n = BaseEnv
             \/ \E u \in Range(opts.gitfs_remotes) :
                   \E r \in RefNames(repo[Md5(u)].refs) : n = SanitizedName(r)

\* C20 (update event): an update() that has run to its end with fileserver_events
\* set has fired one event tagged fileserver/gitfs/update with backend 'gitfs',
\* after the env cache was written, whose changed is true when purge_cache
\* removed something or a fetch found a branch moved, and only when purge_cache
\* removed something or a fetch found the refs of its remote different; with the
\* option unset it has fired none.
C20_UpdateEvent ==
    hist.synced /\ upd.pc = "idle"
    => IF opts.fileserver_events
       THEN /\ event.fired
            /\ event.tag = UpdateTag
            /\ event.backend = "gitfs"
            /\ event.cached
            /\ hist.removed # {} \/ hist.moved => event.changed
            /\ event.changed => hist.removed # {} \/ hist.differs
       ELSE ~event.fired

\* C21 (remote map round-trip): after an init() call, remote_map.txt holds
\* exactly one 'hash = uri' line for every record the call returned; the call
\* rewrote the file if it initialized a new remote and left it untouched if not.
C21_RemoteMap ==
    hist.init.valid
    => /\ \A k \in DOMAIN hist.init.recs :
            /\ remoteMap.exists
            /\ Cardinality({j \in DOMAIN remoteMap.data :
                              remoteMap.data[j] = MapLines(hist.init.recs)[k]}) = 1
       /\ hist.init.new => remoteMap = File(MapLines(hist.init.recs))
       /\ ~hist.init.new => remoteMap = hist.init.before

\* C22 (file_hash caching): when file_hash has returned a digest and no
\* find_file call is rewriting the file, the digest is that of the materialized
\* file refs/<env>/<path>, and the sidecar holds it.
C22_FileHashCaching ==
    /\ hist.api.valid
    /\ hist.api.op = "file_hash"
    /\ hist.api.shape = "dict"
    /\ ~hist.api.raised
    /\ ~InProgress(hist.api.env)
    => /\ cache.ent[hist.api.env].dest.exists
       /\ hist.api.hsum = HashSum(cache.ent[hist.api.env].dest.data)
       /\ cache.ent[hist.api.env].hsum = File(hist.api.hsum)

\* C23 (file and dir listing): file_list resp. dir_list of environment f_x
\* returns, without raising, the sorted union over the repos that hold branch
\* f/x of the paths of the blobs resp. trees below the repo's root, relative to
\* the root and prefixed with the mountpoint; a repo without the branch or
\* whose root cannot be descended contributes nothing.
C23_FileList ==
    hist.list.valid /\ hist.list.env = F_x
    => /\ ~hist.list.raised
       /\ hist.list.ret =
            Sorted(UNION {ListedPaths(u, Fx,
                                      IF hist.list.form = "files" THEN "blob"
                                      ELSE "tree") :
                            u \in {v \in URIs : HasBranch(v, Fx)}})

\* C24 (legacy env key): after file_list or dir_list was called with a load
\* that has 'env', the load has no 'env' key, its 'saltenv' holds the former
\* 'env' value, and the list returned is that of the call with saltenv set to
\* that value.
C24_LegacyEnv ==
    \A given \in hist.list.given : \A load \in hist.list.load :
        hist.list.valid /\ given.env # {}
        => /\ load.env = {}
           /\ load.saltenv = given.env
           /\ \A v \in given.env :
                hist.list.ret =
                  (IF hist.list.raised THEN <<>>
                   ELSE GetList(provider, repo, InitOp(repo, remoteMap, opts).recs,
                                EnvsOp(provider, repo, remoteMap, envCache,
                                       upstream, opts, FALSE).ret,
                                opts, enum, v,
                                IF hist.list.form = "files" THEN "blob"
                                ELSE "tree").ret)

\* C25 (fast path under the lock): no find_file call returns a path from its
\* fast-path check while another worker is between creating <path>.lk and
\* removing it for the same (env, path).
C25_FastPathUnderLock ==
    hist.find.valid /\ hist.find.fast => hist.find.peers \cap SlowPcs = {}

\* C26 (marker/destination ordering): with one worker calling find_file, in
\* every state, the states inside the slow path included, a blob_sha1 marker
\* that exists with value B stands beside a destination holding the complete
\* content of blob B; hence no marker exists from the removal of the sidecars
\* until the destination is completely written.
C26_MarkerAfterDest ==
    /\ \A e \in CacheEnvs :
          cache.ent[e].marker.exists
            => /\ cache.ent[e].dest.exists
               /\ cache.ent[e].dest.data = BlobData(cache.ent[e].marker.data)
    /\ \A p \in Procs :
          pc[p] \in {"open", "write", "marker"}
            => ~cache.ent[call[p].env].marker.exists

\* C26 witness: the worker is inside the slow path for a destination that
\* holds the complete content of another blob: the sidecars are gone and the
\* destination is about to be truncated.
C26_Witness ==
    /\ pc["w1"] = "open"
    /\ cache.ent[call["w1"].env].dest.exists
    /\ cache.ent[call["w1"].env].dest.data # ""
    /\ cache.ent[call["w1"].env].dest.data # BlobData(call["w1"].blob)
    /\ ~cache.ent[call["w1"].env].marker.exists

\* update() with the write of envs.p in its two steps, while envs() is called at
\* any moment and the remotes change
InitEnvCache ==
    /\ provider \in Providers
    /\ enum = "heads_first"
    /\ opts = Opts(<<"u1", "u2">>, {}, {})
    /\ upstream \in {[u \in URIs |-> IF u = "u1" THEN U ELSE RefUniverse(u)] :
                       U \in UpstreamChoices}
    /\ budget = [ups |-> MaxUpstreamOps, cfg |-> 0, dmg |-> 0]
    /\ reqPath = CallPath
    /\ dictOrder = <<"u1", "u2">>
    /\ FreshMaster

NextEnvCache ==
    \/ UpdateStart
    \/ UpdateLock
    \/ UpdateFetch
    \/ UpdateUnlock
    \/ UpdateOpenEnvCache
    \/ UpdateWriteEnvCache
    \/ UpdateKeepEnvCache
    \/ EnvsCall(FALSE)
    \/ \E q \in RefUniverse("u1") : UpstreamCreate("u1", q)
    \/ \E r \in RefNames(upstream["u1"]) : UpstreamDelete("u1", r)

SpecEnvCache == InitEnvCache /\ [][NextEnvCache]_vars

\* C27 (atomic env cache): an envs() call that may use the cache, made while
\* update() regenerates envs.p, finds the file absent or with a complete
\* serialized list in it, never empty.
C27_AtomicEnvCache ==
    hist.envs.valid /\ ~hist.envs.ignore /\ hist.envs.file.exists
        => hist.envs.file.data # <<>>

\* C28 (env cache regeneration): after an update() that returned, envs.p exists;
\* it holds the serialized envs(ignore_cache=True) when data['changed'] was true
\* or the file was missing, and is as update() found it otherwise.
C28_EnvCacheRegen ==
    hist.fin.valid
        => /\ envCache.exists
           /\ IF hist.fin.changed \/ ~hist.fin.before.exists
              THEN envCache = File(Dumps(EnvsOp(provider, repo, remoteMap,
                                                envCache, upstream, opts,
                                                TRUE).ret))
              ELSE envCache = hist.fin.before

\* C28 witness: an update() that returned with data['changed'] true found a
\* list in envs.p and left another one there.
C28_Witness ==
    /\ hist.fin.valid /\ hist.fin.changed /\ hist.fin.before.exists
    /\ upd.pc = "idle"
    /\ envCache.exists
    /\ envCache # hist.fin.before

\* update() runs, and its process can die holding update.lk; between updates a
\* worker serves the file, the hash of the file it found and the lists, and the
\* master lists the environments
InitStale ==
    /\ provider \in Providers
    /\ enum = "heads_first"
    /\ opts = Opts(<<"u1", "u2">>, {}, {})
    /\ upstream = [u \in URIs |-> IF u = "u1" THEN {<<Heads(Fx), ShaA>>}
                                   ELSE {<<Heads(Old), ShaB>>}]
    /\ budget = [ups |-> MaxUpstreamOps, cfg |-> 0, dmg |-> MaxDamage]
    /\ reqPath = CallPath
    /\ dictOrder = <<"u1", "u2">>
    /\ FreshMaster

NextStale ==
    \/ AllIdle /\ UpdateStart
    \/ UpdateLock
    \/ UpdateFetch
    \/ UpdateUnlock
    \/ UpdateFinish
    \/ UpdateDies
    \/ Quiet /\ FFBegin("w1", F_x)
    \/ FindFileStep("w1")
    \/ Quiet /\ \E fnd \in Fnds(F_x) \ {NotFound} :
                    FHBegin("w1", Load(reqPath, F_x), fnd)
    \/ FHWrite("w1")
    \/ Quiet /\ EnvsCall(FALSE)
    \/ Quiet /\ \E form \in {"files", "dirs"} :
                    ListCall(Load(reqPath, F_x), form)
    \/ AllIdle /\ UpstreamMove("u1", Heads(Fx))

SpecStale == InitStale /\ [][NextStale]_vars

\* the working dirs with update.lk removed
NoLk(R) == [h \in DOMAIN R |-> [R[h] EXCEPT !.lk = 0]]

\* the working dirs that hold an update.lk while no update() runs
StaleNow == {h \in Hashes : upd.pc = "idle" /\ repo[h].lk # 0}

InitFail ==
    /\ provider \in Providers
    /\ enum = "heads_first"
    /\ opts \in {[Opts(<<"u1", "u2">>, {}, {}) EXCEPT !.fileserver_events = b] :
                   b \in BOOLEAN}
    /\ upstream = [u \in URIs |-> IF u = "u1" THEN {<<Heads(Fx), ShaA>>}
                                   ELSE {<<Heads(Old), ShaB>>}]
    /\ budget = [ups |-> MaxUpstreamOps, cfg |-> 0, dmg |-> MaxDamage]
    /\ reqPath = CallPath
    /\ dictOrder \in {<<"u1", "u2">>, <<"u2", "u1">>}
    /\ FreshMaster

NextFail ==
    \/ UpdateStart
    \/ UpdateLock
    \/ UpdateFetch
    \/ UpdateUnlock
    \/ UpdateFinish
    \/ \E h \in Hashes : DamageCorrupt(h)
    \/ Quiet /\ UpstreamMove("u1", Heads(Fx))
    \/ Quiet /\ \E q \in RefUniverse("u1") : UpstreamCreate("u1", q)

SpecFail == InitFail /\ [][NextFail]_vars

\* the remotes in the order the loop of update() visits them: the order of the
\* records of init()
CycleOrder == DictKeys(opts.gitfs_remotes)

OriginFx == <<"origin", "/", "f", "/", "x">>
TagsF_x == <<"tags", "/", "f", "_", "x">>
ShaPrefix == <<"c">>
NoPrefix == <<"a">>
ShortNames ==
    {F_x, OriginFx, TagsF_x, Fx, ShaA, ShaPrefix, NoPrefix, TreeObjId("t1")}

\* update() and file_list calls for environment names, ref names and commit
\* ids, with and without a blacklist, while the remote changes
InitTree ==
    /\ provider \in Providers
    /\ enum = "heads_first"
    /\ opts \in {Opts(<<"u1">>, {}, bl) : bl \in {{}, {ShaPrefix, OriginFx}}}
    /\ upstream \in {[u \in URIs |-> IF u = "u1" THEN U ELSE {}] :
                       U \in {{<<Heads(Fx), ShaA>>},
                              {<<Heads(Fx), ShaA>>, <<Tags(F_x), ShaB>>}}}
    /\ budget = [ups |-> MaxUpstreamOps, cfg |-> 0, dmg |-> 0]
    /\ reqPath = CallPath
    /\ dictOrder = <<"u1", "u2">>
    /\ FreshMaster

NextTree ==
    \/ UpdateStart
    \/ UpdateLock
    \/ UpdateFetch
    \/ UpdateUnlock
    \/ UpdateFinish
    \/ Quiet /\ \E short \in ShortNames : ListCall(Load(reqPath, short), "files")
    \/ Quiet /\ UpstreamMove("u1", Heads(Fx))
    \/ Quiet /\ UpstreamDelete("u1", Heads(Fx))

SpecTree == InitTree /\ [][NextTree]_vars

\* the environment names envs() computes from the repos
FreshEnvs ==
    Range(EnvsOp(provider, repo, remoteMap, envCache, upstream, opts, TRUE).ret)

\* C31 (commit-id fallback is hexadecimal only): a file_list call for a name
\* that is no environment name of the repo lists files, i.e. the name resolved
\* to a tree, only if the name passes the exposure filter and is hexadecimal.
C31_HexOnlyFallback ==
    /\ hist.list.valid
    /\ hist.list.env \notin FreshEnvs
    /\ hist.list.ret # <<>>
    => EnvIsExposed(opts, hist.list.env) /\ IsHex(hist.list.env)

\* the sorted file list of a tree, and of no tree
FilesOf(tree) ==
    IF tree = NoTree THEN <<>> ELSE Sorted(Traverse(tree, <<>>, "blob"))

\* the commits of the working dir of u1 whose id starts with short
CommitsLike(short) == {c \in repo[Md5("u1")].objs : StartsWith(c, short)}

\* C32 (abbreviated SHA resolution): with dulwich, a file_list call for an
\* exposed hexadecimal name that is no environment name does not raise; for a
\* name of full length it lists the tree of the commit with that id, and nothing
\* when the store has no such object or it is no commit; for a shorter name it
\* lists the tree of the one commit whose id starts with it, and nothing when
\* no commit or more than one does.
C32_AbbreviatedSha ==
    /\ provider = "dulwich"
    /\ hist.list.valid
    /\ hist.list.env \notin FreshEnvs
    /\ EnvIsExposed(opts, hist.list.env)
    /\ IsHex(hist.list.env)
    => /\ ~hist.list.raised
       /\ hist.list.ret
            = FilesOf(IF Len(hist.list.env) = ShaLen
                      THEN IF hist.list.env \in repo[Md5("u1")].objs
                           THEN CommitTree(hist.list.env) ELSE NoTree
                      ELSE IF Cardinality(CommitsLike(hist.list.env)) = 1
                      THEN CommitTree(CHOOSE c \in CommitsLike(hist.list.env) : TRUE)
                      ELSE NoTree)

\* C32 witness: the abbreviated id is the start of one commit id and of the id
\* of a tree, and the files of that commit are listed.
C32_Witness ==
    /\ provider = "dulwich"
    /\ hist.list.valid
    /\ hist.list.env = ShaPrefix
    /\ CommitsLike(ShaPrefix) = {ShaA}
    /\ TreeObjId("t1") \in ObjectStore(repo[Md5("u1")])
    /\ hist.list.ret = FilesOf(CommitTree(ShaA))
    /\ hist.list.ret # <<>>

----------------------------------------------------------------------------
(* The sub-path walk of the dulwich provider *)

\* the trees and roots the dulwich listing of the last file_list or dir_list
\* call handed to the walk, one pair per configured remote
WalkInputs ==
    LET i == InitOp(repo, remoteMap, opts)
        envlist == EnvsOp(provider, i.repo, i.map, envCache, upstream, opts,
                          FALSE).ret
        short == IF hist.list.env = BaseEnv THEN opts.gitfs_base
                 ELSE hist.list.env
    IN  {[tree |-> GetTreeDulwich(i.repo[i.recs[k].hash], short, envlist, opts),
          root |-> ParamOr(i.recs[k].root, opts.gitfs_root)] :
           k \in DOMAIN i.recs}

\* path.split(os.path.sep) of a walk, <<>> for the empty path
WalkSegs(root) == IF root = <<>> THEN <<>> ELSE SplitAll(root)

\* C33 (sub-path walk): the walk over a tree and a path returns the given
\* tree for the empty path, the tree reached when every segment names a tree,
\* and absent when the starting tree is absent or a segment, the last one
\* included, is missing or names an object that is no tree.
C33_SubPathWalk ==
    hist.list.valid /\ provider = "dulwich"
    => \A w \in WalkInputs :
         LET got == DulwichWalkTree(w.tree, WalkSegs(w.root))
         IN  /\ w.root = <<>> => got = w.tree
             /\ got # NoTree => IsTree(got)
             /\ got = NoTree
                  <=> \/ w.tree = NoTree
                      \/ /\ w.root # <<>>
                         /\ JoinKind(w.tree, w.root) # "tree"

----------------------------------------------------------------------------
(* New refs on the remote *)

\* the only change of the remote is a branch or tag that is new; update() and
\* envs() with the env cache allowed follow each other
InitNew ==
    /\ provider \in Providers
    /\ enum = "heads_first"
    /\ opts = Opts(<<"u1">>, {}, {})
    /\ upstream \in {[u \in URIs |-> IF u = "u1" THEN U ELSE {}] :
                       U \in {{<<Heads(Master), ShaA>>},
                              {<<Heads(Master), ShaA>>, <<Tags(F_x), ShaB>>}}}
    /\ budget = [ups |-> MaxUpstreamOps, cfg |-> 0, dmg |-> 0]
    /\ reqPath = CallPath
    /\ dictOrder = <<"u1", "u2">>
    /\ FreshMaster

NextNew ==
    \/ UpdateStart
    \/ UpdateLock
    \/ UpdateFetch
    \/ UpdateUnlock
    \/ UpdateFinish
    \/ Quiet /\ \E q \in RefUniverse("u1") : UpstreamCreate("u1", q)
    \/ Quiet /\ EnvsCall(FALSE)

SpecNew == InitNew /\ [][NextNew]_vars

\* C34 (new upstream refs become visible): when update() has completed since
\* a branch or tag was created on the remote, envs() called with the env cache
\* allowed returns what envs(ignore_cache=True) returns, the name of the new
\* environment included.
C34_NewRefsVisible ==
    hist.synced /\ hist.envs.valid /\ ~hist.envs.ignore
    => /\ hist.envs.ret = EnvsOp(provider, repo, remoteMap, envCache, upstream,
                                 opts, TRUE).ret
       /\ \A r \in RefNames(upstream["u1"]) :
             EnvOfRef(r, opts) \in Range(hist.envs.ret)

----------------------------------------------------------------------------
(* Advertised environments *)

\* the trees find_file and file_list resolve environment e to, one per
\* configured remote: 'base' stands for gitfs_base, and the resolvers ask
\* envs() with the env cache allowed
ServedTrees(e) ==
    LET i == InitOp(repo, remoteMap, opts)
        envlist == EnvsOp(provider, i.repo, i.map, envCache, upstream, opts,
                          FALSE).ret
        short == IF e = BaseEnv THEN opts.gitfs_base ELSE e
    IN  {GetTree(provider, i.repo[i.recs[k].hash], short, envlist, opts, enum) :
           k \in DOMAIN i.recs}

\* C35 (every advertised environment is servable): for each name envs()
\* returned, the tree resolution of find_file and file_list for that name finds
\* a tree in at least one configured remote.
C35_AdvertisedServable ==
    hist.envs.valid
    => \A e \in Range(hist.envs.ret) : ServedTrees(e) \ {NoTree} # {}

----------------------------------------------------------------------------
(* Lookup misses *)

\* a find_file call of worker w1 that returns the empty result
FindFileMiss ==
    /\ \E env \in CallEnvs : FFBegin("w1", env)
    /\ hist'.find.valid
    /\ hist'.find.ret = NotFound

\* C36 (a lookup miss has no effect on the cache): a find_file call that
\* returns the empty result leaves gitfs/refs and gitfs/hash as they were: no
\* directory or file is created and no lock file stays behind.
C36_MissLeavesCache ==
    [][FindFileMiss => cache' = cache]_vars

----------------------------------------------------------------------------
(* Listing and lookup *)

\* the paths asked for: a file, a directory, a file in the directory, a name
\* the tree does not have, and the first two below the mountpoint
AgreePaths ==
    {CallPath, SubDir, SubDir \o <<Sep>> \o CallPath, Missing,
     Srv \o <<Sep>> \o CallPath, Srv \o <<Sep>> \o SubDir}

\* update() runs, and a worker looks the path up in environment f_x
InitAgree ==
    /\ provider \in Providers
    /\ enum = "heads_first"
    /\ opts \in {[Opts(l, {}, {}) EXCEPT !.remote_params["u1"] = pr] :
                   l \in {<<"u1">>, <<"u1", "u2">>},
                   pr \in {NoParams, [mountpoint |-> {Srv}, root |-> {}]}}
    /\ upstream = [u \in URIs |-> IF u = "u1" THEN {<<Heads(Fx), ShaA>>}
                                   ELSE {<<Heads(Fx), ShaB>>}]
    /\ budget = [ups |-> 0, cfg |-> 0, dmg |-> 0]
    /\ reqPath \in AgreePaths
    /\ dictOrder = <<"u1", "u2">>
    /\ FreshMaster

NextAgree ==
    \/ AllIdle /\ UpdateStart
    \/ UpdateLock
    \/ UpdateFetch
    \/ UpdateUnlock
    \/ UpdateFinish
    \/ upd.pc = "idle" /\ FFBegin("w1", F_x)
    \/ FindFileStep("w1")

SpecAgree == InitAgree /\ [][NextAgree]_vars

\* file_list for the environment, computed from the repos as they are
FileListNow(saltenv) ==
    LET i == InitOp(repo, remoteMap, opts)
        envlist == EnvsOp(provider, i.repo, i.map, envCache, upstream, opts,
                          FALSE).ret
    IN  GetList(provider, i.repo, i.recs, envlist, opts, enum, saltenv, "blob")

\* C37 (listing and lookup agree): find_file(p, e) returns a non-empty result,
\* with rel = p, exactly when p is in file_list(e) computed from the same
\* repos; a path that names a directory of the repo is not served as a file.
C37_ListingLookupAgree ==
    hist.find.valid /\ hist.find.arg = F_x
    => /\ ~FileListNow(F_x).raised
       /\ hist.find.ret # NotFound <=> reqPath \in Range(FileListNow(F_x).ret)
       /\ hist.find.ret # NotFound => hist.find.ret.rel = reqPath

----------------------------------------------------------------------------
(* Updates that find nothing new *)

\* update() runs again and again over one remote whose tag f_x is lightweight
\* or annotated; in between the branch may move
InitQuiet ==
    /\ provider \in Providers
    /\ enum = "heads_first"
    /\ opts = Opts(<<"u1">>, {}, {})
    /\ upstream \in {[u \in URIs |-> IF u = "u1" THEN U ELSE {}] :
                       U \in {{<<Heads(Master), ShaA>>},
                              {<<Heads(Master), ShaA>>, <<Tags(F_x), ShaB>>},
                              {<<Heads(Master), ShaA>>, <<Tags(F_x), ShaB>>,
                               <<Peeled(Tags(F_x)), ShaB>>}}}
    /\ budget = [ups |-> MaxUpstreamOps, cfg |-> 0, dmg |-> 0]
    /\ reqPath = CallPath
    /\ dictOrder = <<"u1", "u2">>
    /\ FreshMaster

NextQuiet ==
    \/ UpdateStart
    \/ UpdateLock
    \/ UpdateFetch
    \/ UpdateUnlock
    \/ UpdateFinish
    \/ Quiet /\ UpstreamMove("u1", Heads(Master))

SpecQuiet == InitQuiet /\ [][NextQuiet]_vars

\* C38 (no spurious change): an update() that runs with the configuration and
\* the refs of the remotes as the previous completed update() left them, and
\* finds envs.p, computes data['changed'] = False, carries that in the event
\* and leaves envs.p as it was.
C38_NoSpuriousChange ==
    hist.fin.valid /\ hist.fin.again /\ hist.fin.before.exists
    => /\ ~hist.fin.changed
       /\ event.fired => ~event.changed
       /\ envCache = hist.fin.before

----------------------------------------------------------------------------
(* Two processes running update() *)

\* os.getpid() of a second process of the master that runs update()
PeerPid == 3

\* lines 718-737 in process p, for a configuration and base dir that give
\* purge_cache() and init() nothing to do: update.lk of the remote's working
\* dir is opened with 'w+' and the pid written
PeerLock(p, u) ==
    /\ pc[p] = "idle"
    /\ Configured(u)
    /\ repo[Md5(u)].kind = "repo"
    /\ remoteMap.exists
    /\ repo' = [repo EXCEPT ![Md5(u)] = WriteLock(@).dir,
                            ![Md5(u)].lk = PeerPid]
    /\ pc' = [pc EXCEPT ![p] = "fetch"]
    /\ hist' = Forget(hist)
    /\ UNCHANGED <<confVars, upstream, remoteMap, envCache, cache, call, upd,
                   event, budget>>

\* lines 738-803 in process p: the fetch returns, update.lk is removed, and
\* envs.p is written when the fetch set data['changed'] or the file is missing
PeerFinish(p, u) ==
    /\ pc[p] = "fetch"
    /\ LET f == FetchOne(provider, repo[Md5(u)], upstream[u])
           R == [repo EXCEPT ![Md5(u)] =
                   IF f.unlock /\ f.dir.kind # "absent"
                   THEN [f.dir EXCEPT !.lk = 0] ELSE f.dir]
       IN  /\ repo' = R
           /\ envCache' = IF f.changed \/ ~envCache.exists
                           THEN File(Dumps(EnvsOp(provider, R, remoteMap,
                                                  envCache, upstream, opts,
                                                  TRUE).ret))
                           ELSE envCache
    /\ pc' = [pc EXCEPT ![p] = "idle"]
    /\ hist' = Forget(hist)
    /\ UNCHANGED <<confVars, upstream, remoteMap, cache, call, upd, event,
                   budget>>

\* two processes run update() over the same remote, whose branch may move
InitOverlap ==
    /\ provider \in Providers
    /\ enum = "heads_first"
    /\ opts = [Opts(<<"u1">>, {}, {}) EXCEPT !.fileserver_events = FALSE]
    /\ upstream \in {[u \in URIs |-> IF u = "u1" THEN U ELSE {}] :
                       U \in {{<<Heads(Master), ShaA>>},
                              {<<Heads(Master), ShaA>>, <<Heads(Fx), ShaA>>}}}
    /\ budget = [ups |-> MaxUpstreamOps, cfg |-> 0, dmg |-> 0]
    /\ reqPath = CallPath
    /\ dictOrder = <<"u1", "u2">>
    /\ FreshMaster

NextOverlap ==
    \/ UpdateStart
    \/ UpdateLock
    \/ UpdateFetch
    \/ UpdateUnlock
    \/ UpdateFinish
    \/ PeerLock("w2", "u1")
    \/ PeerFinish("w2", "u1")
    \/ Quiet /\ UpstreamMove("u1", Heads(Master))

SpecOverlap == InitOverlap /\ [][NextOverlap]_vars

\* C39 (update.lk covers the whole fetch): while a process running update() is
\* fetching a remote, update.lk exists in the working dir of that remote, also
\* when another process runs update() over the same remote at the same time.
C39_LockCoversFetch ==
    /\ upd.pc = "fetch" => repo[upd.recs[upd.i].hash].lk # 0
    /\ pc["w2"] = "fetch" => repo[Md5("u1")].lk # 0

====
